---- MODULE Spec2Model ----
(***************************************************************************)
(* Model of the signal / bus wiring layer of MintSim                       *)
(* (src/src/simcore/sim_signal) and of the model-level connect helper      *)
(* (src/src/simcore/sim_model/model_core.rs).                              *)
(*                                                                         *)
(* A value cell (Rc<RefCell<SigCore>>) is identified by the name it was    *)
(* created with; cellval holds its current value.  A Signal is an entry    *)
(* [name, sig] whose sig is its cell; a RefSignal is an entry [name, sig]  *)
(* whose sig is None (Option::None) or the cell it shares.  A BusCore is   *)
(* the record [signals, keytable] of the source, keytable holding the      *)
(* 0-based index of every name.                                            *)
(***************************************************************************)
EXTENDS Integers, Sequences, FiniteSets, TLC

VARIABLES cellval, bus, last, panicked, pbus, plast,
          sys, sigval, mdl, pc, log, ret

\* The state of the wiring scenarios and the state of the scheduler scenarios
wirevars == <<cellval, bus, last, panicked, pbus, plast>>
simvars == <<sys, sigval, mdl, pc, log, ret>>

vars == <<cellval, bus, last, panicked, pbus, plast,
          sys, sigval, mdl, pc, log, ret>>

\* Bounds of the model
MaxLen == 2     \* longest srclist / dstlist handed to connect_to
MaxVal == 1     \* cell values range over 0..MaxVal

None == "None"
Vals == 0 .. MaxVal

SeqsUpTo(S, n) == UNION {[1..k -> S] : k \in 0..n}

Range(f) == {f[i] : i \in DOMAIN f}

-----------------------------------------------------------------------------
(* BusCore<T>                                                              *)

BusCore_new == [signals |-> <<>>, keytable |-> <<>>]

len(b) == Len(b.signals)

\* BusCore::push that puts the new entry in front while the table records
\* the index of an append
push_front(b, signal) ==
    IF signal.name \in DOMAIN b.keytable
    THEN [ok |-> FALSE, bus |-> b]
    ELSE [ok |-> TRUE,
          bus |-> [signals  |-> <<signal>> \o b.signals,
                   keytable |-> b.keytable @@ (signal.name :> Len(b.signals))]]

\* BusCore::push that lets a duplicate name overwrite the entry of that name
push_overwrite(b, signal) ==
    IF signal.name \in DOMAIN b.keytable
    THEN [ok |-> FALSE,
          bus |-> [b EXCEPT !.signals[b.keytable[signal.name] + 1] = signal]]
    ELSE [ok |-> TRUE,
          bus |-> [signals  |-> Append(b.signals, signal),
                   keytable |-> b.keytable @@ (signal.name :> Len(b.signals))]]

\* BusCore::push: the bus after the call and whether it returned Ok
push(b, signal) ==
    IF signal.name \in DOMAIN b.keytable
    THEN [ok |-> FALSE, bus |-> b]
    ELSE [ok |-> TRUE,
          bus |-> [signals  |-> Append(b.signals, signal),
                   keytable |-> b.keytable @@ (signal.name :> Len(b.signals))]]

\* BusCore::get_by_name: Some(entry) as <<entry>>, None as <<>>
get_by_name(b, signame) ==
    IF signame \in DOMAIN b.keytable
    THEN <<b.signals[b.keytable[signame] + 1]>>
    ELSE <<>>

\* The write through BusCore::get_by_name_mut: the entry found under signame
\* is replaced by newsig (callers have checked that the name exists)
get_by_name_mut(b, signame, newsig) ==
    [b EXCEPT !.signals[b.keytable[signame] + 1] = newsig]

-----------------------------------------------------------------------------
(* Signal and RefSignal                                                    *)

\* Signal::new: the entry of a value bus; its cell carries the signal's name
Signal_new(name) == [name |-> name, sig |-> name]

\* RefSignal::new: an unbound reference slot
RefSignal_new(name) == [name |-> name, sig |-> None]

\* RefSignal::connect_to without its check that the slot is still unbound
RefSignal_connect_to_rebind(self, signal) ==
    IF signal.sig = None
    THEN [res |-> "panic", self |-> self]
    ELSE [res |-> "Ok", self |-> [self EXCEPT !.sig = signal.sig]]

\* RefSignal::connect_to.  The bound check comes first; cloning the source's
\* Rc goes through SigTrait::sig, which unwraps and so panics on an unbound
\* source RefSignal.
RefSignal_connect_to(self, signal) ==
    IF self.sig # None
    THEN [res |-> "Err", self |-> self]
    ELSE IF signal.sig = None
         THEN [res |-> "panic", self |-> self]
         ELSE [res |-> "Ok", self |-> [self EXCEPT !.sig = signal.sig]]

\* RefSignal::disconnect that leaves the binding in place
RefSignal_disconnect_keep(self) == self

\* RefSignal::disconnect
RefSignal_disconnect(self) == [self EXCEPT !.sig = None]

\* RefSignal::is_connected
is_connected(self) == self.sig # None

\* SigTrait::val that answers 0 for an unbound slot instead of panicking
val_default(self, cv) ==
    IF self.sig = None
    THEN [res |-> "Ok", value |-> 0]
    ELSE [res |-> "Ok", value |-> cv[self.sig]]

\* SigTrait::val of a Signal or RefSignal: the value, or a panic
val(self, cv) ==
    IF self.sig = None
    THEN [res |-> "panic", value |-> None]
    ELSE [res |-> "Ok", value |-> cv[self.sig]]

-----------------------------------------------------------------------------
(* Bus and RefBus                                                          *)

RECURSIVE Bus_try_from(_)
\* TryFrom<Vec<SigDef>> for Bus (names are distinct here, so no push fails)
Bus_try_from(sigdef) ==
    IF sigdef = <<>> THEN BusCore_new
    ELSE push(Bus_try_from(SubSeq(sigdef, 1, Len(sigdef) - 1)),
              Signal_new(sigdef[Len(sigdef)])).bus

RECURSIVE RefBus_try_from(_)
\* TryFrom<Vec<SigDef>> for RefBus
RefBus_try_from(sigdef) ==
    IF sigdef = <<>> THEN BusCore_new
    ELSE push(RefBus_try_from(SubSeq(sigdef, 1, Len(sigdef) - 1)),
              RefSignal_new(sigdef[Len(sigdef)])).bus

NoErr == [kind |-> "none", dstlist |-> <<>>, srclist |-> <<>>]

RECURSIVE connect_loop_unpaired(_, _, _, _, _)
\* The for loop of RefBus::connect_to pairing srclist[idx] with the wrong
\* destination name (dstlist read from its end)
connect_loop_unpaired(acc, srcbus, srclist, dstlist, idx) ==
    IF idx > Len(srclist) THEN acc
    ELSE
      LET s == get_by_name(srcbus, srclist[idx]) IN
      IF s = <<>>
      THEN connect_loop_unpaired([acc EXCEPT !.notfoundlist_src = Append(@, srclist[idx])],
                        srcbus, srclist, dstlist, idx + 1)
      ELSE
        LET dst_signame == dstlist[Len(dstlist) + 1 - idx]
            d == get_by_name(acc.bus, dst_signame)
        IN
        IF d = <<>>
        THEN connect_loop_unpaired([acc EXCEPT !.notfoundlist_dst = Append(@, dst_signame)],
                          srcbus, srclist, dstlist, idx + 1)
        ELSE
          LET r == RefSignal_connect_to(d[1], s[1]) IN
          IF r.res = "Ok"
          THEN connect_loop_unpaired([acc EXCEPT !.bus = get_by_name_mut(@, dst_signame, r.self)],
                            srcbus, srclist, dstlist, idx + 1)
          ELSE [acc EXCEPT !.res = r.res,
                           !.err = [kind |-> IF r.res = "Err" THEN "bound" ELSE "none",
                                    dstlist |-> IF r.res = "Err" THEN <<d[1].name>> ELSE <<>>,
                                    srclist |-> IF r.res = "Err" THEN <<s[1].name>> ELSE <<>>]]

RECURSIVE connect_loop(_, _, _, _, _)
\* The for loop of RefBus::connect_to from pair idx on.  acc carries the
\* reference-bus as bound so far, the two not-found lists and the outcome;
\* an Err or a panic of RefSignal::connect_to leaves the loop at once.
connect_loop(acc, srcbus, srclist, dstlist, idx) ==
    IF idx > Len(srclist) THEN acc
    ELSE
      LET s == get_by_name(srcbus, srclist[idx]) IN
      IF s = <<>>
      THEN connect_loop([acc EXCEPT !.notfoundlist_src = Append(@, srclist[idx])],
                        srcbus, srclist, dstlist, idx + 1)
      ELSE
        LET dst_signame == dstlist[idx]
            d == get_by_name(acc.bus, dst_signame)
        IN
        IF d = <<>>
        THEN connect_loop([acc EXCEPT !.notfoundlist_dst = Append(@, dst_signame)],
                          srcbus, srclist, dstlist, idx + 1)
        ELSE
          LET r == RefSignal_connect_to(d[1], s[1]) IN
          IF r.res = "Ok"
          THEN connect_loop([acc EXCEPT !.bus = get_by_name_mut(@, dst_signame, r.self)],
                            srcbus, srclist, dstlist, idx + 1)
          ELSE [acc EXCEPT !.res = r.res,
                           !.err = [kind |-> IF r.res = "Err" THEN "bound" ELSE "none",
                                    dstlist |-> IF r.res = "Err" THEN <<d[1].name>> ELSE <<>>,
                                    srclist |-> IF r.res = "Err" THEN <<s[1].name>> ELSE <<>>]]

Min(x, y) == IF x < y THEN x ELSE y

\* RefBus::connect_to without the comparison of the two lengths: the pairs
\* that both lists have are connected
RefBus_connect_to_nolen(self, srcbus, srclist, dstlist) ==
    LET n == Min(Len(srclist), Len(dstlist))
        acc == connect_loop([bus |-> self, res |-> "Ok", err |-> NoErr,
                             notfoundlist_src |-> <<>>, notfoundlist_dst |-> <<>>],
                            srcbus, SubSeq(srclist, 1, n), SubSeq(dstlist, 1, n), 1)
    IN
    IF acc.res # "Ok"
    THEN [res |-> acc.res, bus |-> acc.bus, err |-> acc.err]
    ELSE IF Len(acc.notfoundlist_src) > 0 \/ Len(acc.notfoundlist_dst) > 0
         THEN [res |-> "Err", bus |-> acc.bus,
               err |-> [kind |-> "notfound",
                        dstlist |-> acc.notfoundlist_dst,
                        srclist |-> acc.notfoundlist_src]]
         ELSE [res |-> "Ok", bus |-> acc.bus, err |-> NoErr]

\* RefBus::connect_to: the outcome (Ok, Err or panic), the reference-bus
\* after the call and what the error names
RefBus_connect_to(self, srcbus, srclist, dstlist) ==
    IF Len(srclist) # Len(dstlist)
    THEN [res |-> "Err", bus |-> self,
          err |-> [kind |-> "len", dstlist |-> <<>>, srclist |-> <<>>]]
    ELSE
      LET acc == connect_loop([bus |-> self, res |-> "Ok", err |-> NoErr,
                               notfoundlist_src |-> <<>>, notfoundlist_dst |-> <<>>],
                              srcbus, srclist, dstlist, 1)
      IN
      IF acc.res # "Ok"
      THEN [res |-> acc.res, bus |-> acc.bus, err |-> acc.err]
      ELSE IF Len(acc.notfoundlist_src) > 0 \/ Len(acc.notfoundlist_dst) > 0
           THEN [res |-> "Err", bus |-> acc.bus,
                 err |-> [kind |-> "notfound",
                          dstlist |-> acc.notfoundlist_dst,
                          srclist |-> acc.notfoundlist_src]]
           ELSE [res |-> "Ok", bus |-> acc.bus, err |-> NoErr]

\* RefBus::disconnect
RefBus_disconnect(self, signame) ==
    IF get_by_name(self, signame) = <<>>
    THEN [res |-> "Err", bus |-> self]
    ELSE [res |-> "Ok",
          bus |-> get_by_name_mut(self, signame,
                                  RefSignal_disconnect(get_by_name(self, signame)[1]))]

\* RefBus::disconnect_all
RefBus_disconnect_all(self) ==
    [self EXCEPT !.signals = [i \in DOMAIN self.signals |->
                                 RefSignal_disconnect(self.signals[i])]]

-----------------------------------------------------------------------------
(* The buses and models of the wiring scenario                             *)

\* Value buses a and o, reference-buses b and c (as in refbus_connect2, the
\* two reference-buses use the same slot names)
ValueBusIds == {"a", "o"}
RefBusIds == {"b", "c"}
BusIds == ValueBusIds \cup RefBusIds

\* The buses wired directly with connect_to; o is the output bus of a model
\* and is wired with connect_models
WireBusIds == {"a", "b", "c"}

SigDefs(id) ==
    CASE id = "a" -> <<"bus1", "bus2">>
      [] id = "o" -> <<"out1">>
      [] id = "b" -> <<"refbus1", "refbus2">>
      [] id = "c" -> <<"refbus1", "refbus2">>

Cells == Range(SigDefs("a")) \cup Range(SigDefs("o"))

\* A name that no bus holds
NoSig == "nosig"

NamePool(id) == Range(SigDefs(id)) \cup {NoSig}

\* ModelCore::interface_in / interface_out of the three kinds of model: a
\* source (StepFunc) has no input, a recorder (SimRecorder) has no output
ModelIds == {"input", "model", "scp"}

interface_in(m) ==
    CASE m = "input" -> None
      [] m = "model" -> "b"
      [] m = "scp"   -> "c"

interface_out(m) ==
    CASE m = "input" -> "a"
      [] m = "model" -> "o"
      [] m = "scp"   -> None

\* connect_models handing the two name lists to connect_to in the wrong order
connect_models_swapped(buses, srcmodel, srclist, dstmodel, dstlist) ==
    IF interface_out(srcmodel) # None
    THEN IF interface_in(dstmodel) # None
         THEN LET r == RefBus_connect_to(buses[interface_in(dstmodel)],
                                         buses[interface_out(srcmodel)],
                                         dstlist, srclist)
              IN [res |-> r.res, err |-> r.err,
                  buses |-> [buses EXCEPT ![interface_in(dstmodel)] = r.bus]]
         ELSE [res |-> "Err", buses |-> buses,
               err |-> [kind |-> "noinput", dstlist |-> <<>>, srclist |-> <<>>]]
    ELSE [res |-> "Err", buses |-> buses,
          err |-> [kind |-> "nooutput", dstlist |-> <<>>, srclist |-> <<>>]]

\* connect_models: the outcome and the buses after the call
connect_models(buses, srcmodel, srclist, dstmodel, dstlist) ==
    IF interface_out(srcmodel) # None
    THEN IF interface_in(dstmodel) # None
         THEN LET r == RefBus_connect_to(buses[interface_in(dstmodel)],
                                         buses[interface_out(srcmodel)],
                                         srclist, dstlist)
              IN [res |-> r.res, err |-> r.err,
                  buses |-> [buses EXCEPT ![interface_in(dstmodel)] = r.bus]]
         ELSE [res |-> "Err", buses |-> buses,
               err |-> [kind |-> "noinput", dstlist |-> <<>>, srclist |-> <<>>]]
    ELSE [res |-> "Err", buses |-> buses,
          err |-> [kind |-> "nooutput", dstlist |-> <<>>, srclist |-> <<>>]]

-----------------------------------------------------------------------------
(* SimTime (sim_system.rs).  Times are counted in whole multiples of a     *)
(* time quantum.  Below 2^53 quanta every sum of the clock is exact; from  *)
(* 2^53 on the sum is rounded as f64 rounds it.                            *)

\* SimTime::new
SimTime_new(start_time, end_time, delta_t) ==
    [time |-> start_time, step |-> 0, delta_t |-> delta_t,
     start_time |-> start_time, end_time |-> end_time]

\* SimTime::reset
SimTime_reset(self) == [self EXCEPT !.step = 0, !.time = self.start_time]

\* 2^53 in time quanta, written as 2^30: from it on the f64 values are two
\* quanta apart, below it every whole number of quanta is an f64 value
Two53 == 1073741824

\* An exact sum at or above 2^53 rounded to the nearest f64 value, a tie
\* going to the value whose significand is even
round_ties_even(s) ==
    LET off == s - Two53 IN
    IF off % 2 = 0 THEN s
    ELSE IF (off + 1) % 4 = 0 THEN s + 1
    ELSE s - 1

\* a + b on f64 for a >= 0 and b >= 0 below 2^54
f64_add(a, b) == IF a + b < Two53 THEN a + b ELSE round_ties_even(a + b)

\* SimTime::nextstate
SimTime_nextstate(self) ==
    [self EXCEPT !.time = f64_add(self.time, self.delta_t), !.step = self.step + 1]

\* SimTime::change_delta_t
change_delta_t(self, delta_t) == [self EXCEPT !.delta_t = delta_t]

\* SimTime::step_num for delta_t > 0: the quotient cast to usize, which
\* truncates and turns a negative quotient into 0
step_num(self) ==
    IF self.end_time - self.start_time < 0 THEN 0
    ELSE (self.end_time - self.start_time) \div self.delta_t

\* Iterator::next that stops one instant early (time + delta_t < end_time)
SimTime_next_early(self) ==
    IF self.time + self.delta_t < self.end_time
    THEN <<SimTime_nextstate(self)>>
    ELSE <<>>

\* Iterator::next for SimTime: Some as <<the clock after nextstate>>, whose
\* step and time are the item yielded; None as <<>>
SimTime_next(self) ==
    IF self.time < self.end_time
    THEN <<SimTime_nextstate(self)>>
    ELSE <<>>

-----------------------------------------------------------------------------
(* DMatrix<f64> of nalgebra as a sequence of rows; a column vector is a    *)
(* sequence of one-entry rows.  Entries are integers and the arithmetic is *)
(* exact.                                                                  *)

\* The storage of a matrix is filled when the matrix is made: a row or a
\* column of rows given entry by entry, as the sequence of its entries
Stored(f) == f \o <<>>

from_element(nrows, ncols, elem) ==
    Stored([i \in 1 .. nrows |-> Stored([j \in 1 .. ncols |-> elem])])

ncols(m) == IF Len(m) = 0 THEN 0 ELSE Len(m[1])

RECURSIVE dot(_, _, _, _, _)
\* The sum over k' <= k of a[i][k'] * b[k'][j]
dot(a, b, i, j, k) ==
    IF k = 0 THEN 0 ELSE a[i][k] * b[k][j] + dot(a, b, i, j, k - 1)

mat_mul(a, b) ==
    Stored([i \in 1 .. Len(a) |->
              Stored([j \in 1 .. ncols(b) |-> dot(a, b, i, j, Len(b))])])

mat_add(a, b) ==
    Stored([i \in 1 .. Len(a) |->
              Stored([j \in 1 .. ncols(a) |-> a[i][j] + b[i][j]])])

mat_scale(a, s) ==
    Stored([i \in 1 .. Len(a) |-> Stored([j \in 1 .. ncols(a) |-> a[i][j] * s])])

\* Division of every entry by a number that divides it
mat_div(a, s) ==
    Stored([i \in 1 .. Len(a) |-> Stored([j \in 1 .. ncols(a) |-> a[i][j] \div s])])

\* The column vector of a sequence of values (DMatrix::from_vec(n, 1, v))
col_vec(v) == Stored([i \in 1 .. Len(v) |-> <<v[i]>>])

\* A row-major slice written into a matrix with n columns, entry i of the
\* slice (from 0) going to (i / n, i % n), as the set_mtrx_* methods do
fill_row_major(m, slice, n) ==
    Stored([i \in 1 .. Len(m) |->
              Stored([j \in 1 .. ncols(m) |-> slice[(i - 1) * n + j]])])

-----------------------------------------------------------------------------
(* Values on buses.  sv maps every cell to its value.                      *)

\* Signal::set_val
set_val(self, v, sv) == [sv EXCEPT ![self.sig] = v]

\* Some slot of the bus is unbound, so that reading all of it panics
has_unbound(b) == \E i \in 1 .. len(b) : b.signals[i].sig = None

\* BusCore::to_vec_f64 of a bus whose slots are all bound
to_vec_f64(b, sv) == [i \in 1 .. len(b) |-> sv[b.signals[i].sig]]

\* RefBus::export_to_matrix
export_to_matrix(b, sv) == col_vec(to_vec_f64(b, sv))

RECURSIVE import_loop(_, _, _, _)
import_loop(b, v, sv, i) ==
    IF i > Len(v) THEN sv
    ELSE import_loop(b, v, set_val(b.signals[i], v[i], sv), i + 1)

\* Bus::import_matrix of a column vector no longer than the bus
import_matrix(b, matrix, sv) ==
    import_loop(b, [i \in 1 .. Len(matrix) |-> matrix[i][1]], sv, 1)

\* Bus::set_all
set_all(b, value, sv) == import_loop(b, [i \in 1 .. len(b) |-> value], sv, 1)

\* Bus::zero_reset
zero_reset(b, sv) == import_loop(b, [i \in 1 .. len(b) |-> 0], sv, 1)

-----------------------------------------------------------------------------
(* The models: StepFunc (source_models.rs), SpaceStateModel (de_models.rs) *)
(* and SimRecorder (sink_models.rs).  A model is a record of its fields;   *)
(* its ModelCore methods answer [res, self, sv]: Ok or panic, the model    *)
(* and the cell values after the call.                                     *)

\* The index of the first unbound slot of a bus, len + 1 when all are bound
first_unbound(b) ==
    IF has_unbound(b)
    THEN CHOOSE i \in 1 .. len(b) :
            /\ b.signals[i].sig = None
            /\ \A j \in 1 .. i - 1 : b.signals[j].sig # None
    ELSE len(b) + 1

\* TryFrom<Vec<SigDef>> is Ok exactly when no push of its loop failed
try_from_is_ok(sigdef) == len(Bus_try_from(sigdef)) = Len(sigdef)

\* StepFunc::new; a setting is <<init_value, final_value, step_time>>
StepFunc_new(output_def, settings) ==
    IF ~try_from_is_ok(output_def) THEN [res |-> "Err", self |-> None]
    ELSE IF Len(output_def) # Len(settings) THEN [res |-> "Err", self |-> None]
    ELSE [res |-> "Ok",
          self |-> [kind |-> "StepFunc", outbus |-> Bus_try_from(output_def),
                    settings |-> settings]]

RECURSIVE StepFunc_init_loop(_, _, _)
StepFunc_init_loop(self, sv, idx) ==
    IF idx > len(self.outbus) THEN sv
    ELSE StepFunc_init_loop(self,
            set_val(self.outbus.signals[idx], self.settings[idx][1], sv), idx + 1)

\* ModelCore::initialize for StepFunc
StepFunc_initialize(self, sim_time, sv) ==
    [res |-> "Ok", self |-> self, sv |-> StepFunc_init_loop(self, sv, 1)]

RECURSIVE StepFunc_next_loop_strict(_, _, _, _)
\* The loop of StepFunc::nextstate switching only after step_time (>)
StepFunc_next_loop_strict(self, sim_time, sv, idx) ==
    IF idx > len(self.outbus) THEN sv
    ELSE StepFunc_next_loop_strict(self, sim_time,
            IF sim_time.time > self.settings[idx][3]
            THEN set_val(self.outbus.signals[idx], self.settings[idx][2], sv)
            ELSE sv,
            idx + 1)

RECURSIVE StepFunc_next_loop(_, _, _, _)
\* The loop of StepFunc::nextstate over the signals of outbus
StepFunc_next_loop(self, sim_time, sv, idx) ==
    IF idx > len(self.outbus) THEN sv
    ELSE StepFunc_next_loop(self, sim_time,
            IF sim_time.time >= self.settings[idx][3]
            THEN set_val(self.outbus.signals[idx], self.settings[idx][2], sv)
            ELSE sv,
            idx + 1)

\* ModelCore::nextstate for StepFunc
StepFunc_nextstate(self, sim_time, sv) ==
    [res |-> "Ok", self |-> self, sv |-> StepFunc_next_loop(self, sim_time, sv, 1)]

\* SpaceStateModel::new from the two constructed buses
SpaceStateModel_new(input_def, output_def, sdim, solvertype) ==
    IF ~try_from_is_ok(input_def) \/ ~try_from_is_ok(output_def)
    THEN [res |-> "Err", self |-> None]
    ELSE
      LET idim == Len(input_def)
          odim == Len(output_def)
      IN
      IF sdim <= 0 \/ idim <= 0 \/ odim <= 0
      THEN [res |-> "Err", self |-> None]
      ELSE [res |-> "Ok",
            self |-> [kind |-> "SpaceStateModel",
                      mtrx_a |-> from_element(sdim, sdim, 0),
                      mtrx_b |-> from_element(sdim, idim, 0),
                      mtrx_c |-> from_element(odim, sdim, 0),
                      mtrx_d |-> from_element(odim, idim, 0),
                      x |-> from_element(sdim, 1, 0),
                      init_x |-> from_element(sdim, 1, 0),
                      state_dim |-> sdim, input_dim |-> idim, output_dim |-> odim,
                      solver |-> solvertype,
                      input_bus |-> RefBus_try_from(input_def),
                      output_bus |-> Bus_try_from(output_def)]]

\* SpaceStateModel::set_init_state
set_init_state(self, init_state) ==
    IF Len(init_state) # self.state_dim THEN [res |-> "Err", self |-> self]
    ELSE [res |-> "Ok", self |-> [self EXCEPT !.init_x = col_vec(init_state)]]

\* SpaceStateModel::set_x
set_x(self, x) ==
    IF Len(x) # self.state_dim THEN [res |-> "Err", self |-> self]
    ELSE [res |-> "Ok", self |-> [self EXCEPT !.x = col_vec(x)]]

\* SpaceStateModel::set_mtrx_a
set_mtrx_a(self, mtrx_a) ==
    IF Len(mtrx_a) # self.state_dim * self.state_dim
    THEN [res |-> "Err", self |-> self]
    ELSE [res |-> "Ok",
          self |-> [self EXCEPT !.mtrx_a = fill_row_major(@, mtrx_a, self.state_dim)]]

\* SpaceStateModel::set_mtrx_b
set_mtrx_b(self, mtrx_b) ==
    IF Len(mtrx_b) # self.state_dim * self.input_dim
    THEN [res |-> "Err", self |-> self]
    ELSE [res |-> "Ok",
          self |-> [self EXCEPT !.mtrx_b = fill_row_major(@, mtrx_b, self.input_dim)]]

\* SpaceStateModel::set_mtrx_c
set_mtrx_c(self, mtrx_c) ==
    IF Len(mtrx_c) # self.output_dim * self.state_dim
    THEN [res |-> "Err", self |-> self]
    ELSE [res |-> "Ok",
          self |-> [self EXCEPT !.mtrx_c = fill_row_major(@, mtrx_c, self.state_dim)]]

\* SpaceStateModel::set_mtrx_d
set_mtrx_d(self, mtrx_d) ==
    IF Len(mtrx_d) # self.output_dim * self.input_dim
    THEN [res |-> "Err", self |-> self]
    ELSE [res |-> "Ok",
          self |-> [self EXCEPT !.mtrx_d = fill_row_major(@, mtrx_d, self.input_dim)]]

\* DEModel::derivative_func for SpaceStateModel: A x + B u, u read from the
\* input bus at the time of the call
derivative_func(self, x, sv) ==
    mat_add(mat_mul(self.mtrx_a, x),
            mat_mul(self.mtrx_b, export_to_matrix(self.input_bus, sv)))

\* DEModel::set_state for SpaceStateModel
set_state(self, newstate) == [self EXCEPT !.x = newstate]

\* DEModel::euler_method adding the derivative without the step size
euler_method_nodt(self, delta_t, sv) ==
    mat_add(self.x, derivative_func(self, self.x, sv))

\* DEModel::euler_method: the new state
euler_method(self, delta_t, sv) ==
    mat_add(self.x, mat_scale(derivative_func(self, self.x, sv), delta_t))

\* A stage of rungekutta_method: derivative_func(&(state + &d / div)) * delta_t,
\* the division being exact when delta_t is a multiple of 6
rk_stage(self, d, div, delta_t, sv) ==
    mat_scale(derivative_func(self, mat_add(self.x, mat_div(d, div)), sv), delta_t)

\* state + (d1 + 2.0 * d2 + 2.0 * d3 + d4) / 6.0
rk_newstate(state, d1, d2, d3, d4) ==
    mat_add(state,
            mat_div(mat_add(mat_add(d1, mat_scale(d2, 2)),
                            mat_add(mat_scale(d3, 2), d4)), 6))

\* rungekutta_method from its third stage on
rk_from_d3(self, delta_t, sv, d1, d2, d3) ==
    rk_newstate(self.x, d1, d2, d3, rk_stage(self, d3, 1, delta_t, sv))

\* rungekutta_method from its second stage on
rk_from_d2(self, delta_t, sv, d1, d2) ==
    rk_from_d3(self, delta_t, sv, d1, d2, rk_stage(self, d2, 2, delta_t, sv))

\* rungekutta_method from its first stage on
rk_from_d1(self, delta_t, sv, d1) ==
    rk_from_d2(self, delta_t, sv, d1, rk_stage(self, d1, 2, delta_t, sv))

\* DEModel::rungekutta_method taking the second stage at state + d1
rungekutta_method_fullstep(self, delta_t, sv) ==
    rk_from_d2(self, delta_t, sv,
               mat_scale(derivative_func(self, self.x, sv), delta_t),
               rk_stage(self, mat_scale(derivative_func(self, self.x, sv), delta_t),
                        1, delta_t, sv))

\* DEModel::rungekutta_method: the new state
rungekutta_method(self, delta_t, sv) ==
    rk_from_d1(self, delta_t, sv,
               mat_scale(derivative_func(self, self.x, sv), delta_t))

\* SpaceStateModel::get_observation: C x + D u
get_observation(self, sv) ==
    mat_add(mat_mul(self.mtrx_c, self.x),
            mat_mul(self.mtrx_d, export_to_matrix(self.input_bus, sv)))

\* ModelCore::initialize for SpaceStateModel
SpaceStateModel_initialize(self, sim_time, sv) ==
    [res |-> "Ok", self |-> [self EXCEPT !.x = self.init_x], sv |-> sv]

\* The state after the integration step of SpaceStateModel::nextstate
integrate(self, delta_t, sv) ==
    IF self.solver = "Euler" THEN euler_method(self, delta_t, sv)
    ELSE rungekutta_method(self, delta_t, sv)

\* SpaceStateModel::nextstate observing before it integrates
SpaceStateModel_nextstate_obsfirst(self, sim_time, sv) ==
    IF has_unbound(self.input_bus)
    THEN [res |-> "panic", self |-> self, sv |-> sv]
    ELSE LET obs == get_observation(self, sv)
             stepped == [self EXCEPT !.x = integrate(self, sim_time.delta_t, sv)]
         IN [res |-> "Ok", self |-> stepped,
             sv |-> import_matrix(self.output_bus, obs, sv)]

\* ModelCore::nextstate for SpaceStateModel: integrate, observe, write the
\* outputs.  The first read of the input bus panics on an unbound slot.
SpaceStateModel_nextstate(self, sim_time, sv) ==
    IF has_unbound(self.input_bus)
    THEN [res |-> "panic", self |-> self, sv |-> sv]
    ELSE LET stepped == [self EXCEPT !.x = integrate(self, sim_time.delta_t, sv)]
             obs == get_observation(stepped, sv)
         IN [res |-> "Ok", self |-> stepped,
             sv |-> import_matrix(self.output_bus, obs, sv)]

\* SimRecorder::new
SimRecorder_new(inbus) ==
    [kind |-> "SimRecorder", timedata |-> <<>>, storage |-> <<>>,
     signum |-> len(inbus), input_bus |-> inbus]

\* ModelCore::initialize for SimRecorder with start_time pushed onto the
\* time series of the previous run
SimRecorder_initialize_keep(self, sim_time, sv) ==
    LET k == first_unbound(self.input_bus)
        fresh == [idx \in 1 .. self.signum |->
                    IF idx < k THEN <<sv[self.input_bus.signals[idx].sig]>>
                    ELSE <<>>]
    IN
    IF k <= self.signum
    THEN [res |-> "panic", sv |-> sv,
          self |-> [self EXCEPT !.timedata = <<>>, !.storage = fresh]]
    ELSE [res |-> "Ok", sv |-> sv,
          self |-> [self EXCEPT !.timedata = Append(@, sim_time.start_time),
                                !.storage = fresh]]

\* ModelCore::initialize for SimRecorder: the storage is rebuilt, the first
\* sample of every signal is read (a panic at the first unbound slot) and
\* then start_time is pushed
SimRecorder_initialize(self, sim_time, sv) ==
    LET k == first_unbound(self.input_bus)
        fresh == [idx \in 1 .. self.signum |->
                    IF idx < k THEN <<sv[self.input_bus.signals[idx].sig]>>
                    ELSE <<>>]
    IN
    IF k <= self.signum
    THEN [res |-> "panic", sv |-> sv,
          self |-> [self EXCEPT !.timedata = <<>>, !.storage = fresh]]
    ELSE [res |-> "Ok", sv |-> sv,
          self |-> [self EXCEPT !.timedata = <<sim_time.start_time>>,
                                !.storage = fresh]]

\* ModelCore::nextstate for SimRecorder: the time is pushed, then one sample
\* per signal (a panic at the first unbound slot, or at the first signal when
\* initialize has not built the storage)
SimRecorder_nextstate(self, sim_time, sv) ==
    LET k == first_unbound(self.input_bus)
        pushed == [idx \in 1 .. Len(self.storage) |->
                     IF idx < k
                     THEN Append(self.storage[idx], sv[self.input_bus.signals[idx].sig])
                     ELSE self.storage[idx]]
    IN
    IF Len(self.storage) < len(self.input_bus)
    THEN [res |-> "panic", sv |-> sv,
          self |-> [self EXCEPT !.timedata = Append(@, sim_time.time)]]
    ELSE [res |-> IF k <= len(self.input_bus) THEN "panic" ELSE "Ok", sv |-> sv,
          self |-> [self EXCEPT !.timedata = Append(@, sim_time.time),
                                !.storage = pushed]]

\* ModelCore::initialize of a model of any kind
initialize(self, sim_time, sv) ==
    CASE self.kind = "StepFunc" -> StepFunc_initialize(self, sim_time, sv)
      [] self.kind = "SpaceStateModel" -> SpaceStateModel_initialize(self, sim_time, sv)
      [] self.kind = "SimRecorder" -> SimRecorder_initialize(self, sim_time, sv)

\* ModelCore::nextstate of a model of any kind
nextstate(self, sim_time, sv) ==
    CASE self.kind = "StepFunc" -> StepFunc_nextstate(self, sim_time, sv)
      [] self.kind = "SpaceStateModel" -> SpaceStateModel_nextstate(self, sim_time, sv)
      [] self.kind = "SimRecorder" -> SimRecorder_nextstate(self, sim_time, sv)

\* ModelCore::finalize, which does nothing in these three models
finalize(self) == self

-----------------------------------------------------------------------------
(* SimSystem (sim_system.rs).  The system holds its models in a Vec and    *)
(* its recorders in a HashMap; the objects themselves are kept in mdl      *)
(* under their identities.                                                 *)

\* SimSystem::new
SimSystem_new(start_time, end_time, delta_t) ==
    [sim_time |-> SimTime_new(start_time, end_time, delta_t),
     models |-> <<>>, recorders |-> <<>>]

\* SimSystem::regist_model putting the model in front of those registered
regist_model_front(self, model) == [self EXCEPT !.models = <<model>> \o @]

\* SimSystem::regist_model
regist_model(self, model) == [self EXCEPT !.models = Append(@, model)]

\* SimSystem::regist_recorder keeping the recorder already held under the name
regist_recorder_keep(self, name, recorder) ==
    [self EXCEPT !.recorders =
        IF name \in DOMAIN @ THEN @ ELSE @ @@ (name :> recorder)]

\* SimSystem::regist_recorder: HashMap::insert replaces the value of a key
\* that is present
regist_recorder(self, name, recorder) ==
    [self EXCEPT !.recorders =
        [n \in DOMAIN @ \cup {name} |-> IF n = name THEN recorder ELSE @[n]]]

\* SimSystem::get_recorder
get_recorder(self, name) ==
    IF name \in DOMAIN self.recorders
    THEN [res |-> "Ok", recorder |-> self.recorders[name]]
    ELSE [res |-> "Err", recorder |-> None]

\* Vec::iter_mut in reverse
models_iter_rev(models, i) == models[Len(models) + 1 - i]

\* The i-th model that self.models.iter_mut() visits
models_iter(models, i) == models[i]

\* The recorders registered in the system
Recorders(self) == Range(self.recorders)

RECURSIVE advance(_, _)
\* The position of run() moved over the loops that have nothing left to
\* visit: from the models of a phase to its recorders and on to the next phase
advance(self, p) ==
    CASE p.phase \in {"init_models", "step_models", "fin_models"}
            /\ p.idx > Len(self.models) ->
            advance(self, [phase |-> CASE p.phase = "init_models" -> "init_recorders"
                                       [] p.phase = "step_models" -> "step_recorders"
                                       [] p.phase = "fin_models"  -> "fin_recorders",
                           idx |-> 1, todo |-> Recorders(self)])
      [] p.phase \in {"init_recorders", "step_recorders", "fin_recorders"}
            /\ p.todo = {} ->
            [phase |-> CASE p.phase = "init_recorders" -> "loop"
                         [] p.phase = "step_recorders" -> "loop"
                         [] p.phase = "fin_recorders"  -> "done",
             idx |-> 1, todo |-> {}]
      [] OTHER -> p

-----------------------------------------------------------------------------
(* The units of the scheduler scenario: a step source sf, two state-space  *)
(* models ma and mb (one state, one input, one output, Euler), and two     *)
(* recorders scp1 and scp2.                                                *)

MaxEnd == 2     \* end_time of the clock ranges over 1..MaxEnd
MaxDt == 2      \* delta_t of the clock ranges over 1..MaxDt
MaxRuns == 2    \* run() is called at most MaxRuns times

SimModelIds == {"sf", "ma", "mb"}
SimRecIds == {"scp1", "scp2"}
SimUnitIds == SimModelIds \cup SimRecIds

\* The names recorders are registered under
RecNames == {"rec1", "rec2"}

\* The cells of the output buses: st1 of sf, oa of ma, ob of mb
SimCells == {"st1", "oa", "ob"}

\* The settings <<init_value, final_value, step_time>> of the step source
StepSettings == {<<0, 1, 0>>, <<1, 0, 1>>}

\* A state-space model dx/dt = u, y = x with the given initial state
NewSsm(input, output, init_state) ==
    LET m0 == SpaceStateModel_new(<<input>>, <<output>>, 1, "Euler").self
        m1 == set_mtrx_b(m0, <<1>>).self
        m2 == set_mtrx_c(m1, <<1>>).self
    IN set_init_state(m2, <<init_state>>).self

\* The units as constructed, nothing wired
NewUnits(setting) ==
    [id \in SimUnitIds |->
        CASE id = "sf" -> StepFunc_new(<<"st1">>, <<setting>>).self
          [] id = "ma" -> NewSsm("ia", "oa", 1)
          [] id = "mb" -> NewSsm("ib", "ob", 0)
          [] id = "scp1" -> SimRecorder_new(RefBus_try_from(<<"r11", "r12">>))
          [] id = "scp2" -> SimRecorder_new(RefBus_try_from(<<"r21">>))]

\* ModelCore::interface_out of a unit: its output bus (a recorder has none)
unit_interface_out(self) ==
    CASE self.kind = "StepFunc" -> self.outbus
      [] self.kind = "SpaceStateModel" -> self.output_bus
      [] self.kind = "SimRecorder" -> BusCore_new

\* ModelCore::interface_in of a unit: its input bus (a source has none)
unit_interface_in(self) ==
    CASE self.kind = "StepFunc" -> BusCore_new
      [] self.kind = "SpaceStateModel" -> self.input_bus
      [] self.kind = "SimRecorder" -> self.input_bus

RECURSIVE Wire(_, _)
\* The units after the connect_models calls w, each
\* <<srcmodel, srclist, dstmodel, dstlist>>, made in order
Wire(units, w) ==
    IF w = <<>> THEN units
    ELSE LET c == w[1]
             r == RefBus_connect_to(units[c[3]].input_bus,
                                    unit_interface_out(units[c[1]]), c[2], c[4])
         IN Wire([units EXCEPT ![c[3]].input_bus = r.bus], Tail(w))

\* The recorders watch the source, ma and mb
RecorderWiring ==
    << <<"sf", <<"st1">>, "scp1", <<"r11">> >>,
       <<"mb", <<"ob">>, "scp1", <<"r12">> >>,
       <<"ma", <<"oa">>, "scp2", <<"r21">> >> >>

\* sf feeds ma and ma feeds mb; or ma and mb feed each other
Wirings ==
    { << <<"sf", <<"st1">>, "ma", <<"ia">> >>,
         <<"ma", <<"oa">>, "mb", <<"ib">> >> >> \o RecorderWiring,
      << <<"mb", <<"ob">>, "ma", <<"ia">> >>,
         <<"ma", <<"oa">>, "mb", <<"ib">> >> >> \o RecorderWiring }

\* The position of run(): idle outside of it
Idle == [phase |-> "idle", idx |-> 1, todo |-> {}]

\* What is remembered of the calls made: the ModelCore calls of the current
\* phase of run() (the initialization, one tick, the finalization) in call
\* order, each unit's count of calls in the current run, the cell values at
\* the start of the current tick, the number of runs started, the recorders
\* moved into the system, the models in the order of their regist_model
\* calls, and of the first run the values after its initialization and the
\* records it left
NewLife == [state |-> "Uninitialized", ninit |-> 0, nstep |-> 0, nfin |-> 0]

NoLog == [calls |-> <<>>, life |-> [u \in SimUnitIds |-> NewLife],
          tickstart |-> [c \in SimCells |-> 0], runs |-> 0, moved |-> {},
          order |-> <<>>,
          first |-> [init |-> <<>>, rec |-> <<>>]]

NoRet == [op |-> "none", name |-> None, recorder |-> None, res |-> "Ok",
          pre |-> <<>>]

\* The scheduler scenario before anything is registered
SimIdle ==
    /\ sys = SimSystem_new(0, 1, 1)
    /\ sigval = [c \in SimCells |-> 0]
    /\ mdl = NewUnits(<<0, 1, 0>>)
    /\ pc = Idle
    /\ log = NoLog
    /\ ret = NoRet

-----------------------------------------------------------------------------
(* State machine                                                           *)

NoOp == [op |-> "none", dst |-> None, src |-> None, srclist |-> <<>>,
         dstlist |-> <<>>, res |-> "Ok", err |-> NoErr, pre |-> None,
         value |-> None]

\* The buses as constructed: every reference slot unbound
NewBuses == [id \in BusIds |-> IF id \in ValueBusIds
                               THEN Bus_try_from(SigDefs(id))
                               ELSE RefBus_try_from(SigDefs(id))]

\* The buses of refbus_connect2 once b has been connected to a, its slots
\* taking the signals of a in reverse order
ChainedBuses ==
    [NewBuses EXCEPT !["b"] = RefBus_connect_to(NewBuses["b"], NewBuses["a"],
                                                <<"bus2", "bus1">>,
                                                <<"refbus1", "refbus2">>).bus]

Init ==
    /\ cellval = [c \in Cells |-> 0]
    /\ bus = NewBuses
    /\ last = NoOp
    /\ panicked = FALSE
    /\ pbus = BusCore_new
    /\ plast = [res |-> "none", signal |-> [name |-> None, sig |-> 0],
                pre |-> BusCore_new, pushed |-> <<>>]
    /\ SimIdle

\* The caller drops the Result of the last call; the next call of the wiring
\* API is made after that
DropResult ==
    /\ ~panicked
    /\ last.op # "none"
    /\ last' = NoOp
    /\ UNCHANGED <<cellval, bus, panicked, pbus, plast, simvars>>

\* dst.connect_to(&src, srclist, dstlist) for a reference-bus dst of dsts and a
\* source among the buses a, b and c
ConnectToOf(dsts) ==
    /\ ~panicked
    /\ last.op = "none"
    /\ \E dst \in dsts, src \in WireBusIds :
         /\ src # dst
         /\ \E srclist \in SeqsUpTo(NamePool(src), MaxLen),
               dstlist \in SeqsUpTo(NamePool(dst), MaxLen) :
              LET r == RefBus_connect_to(bus[dst], bus[src], srclist, dstlist) IN
              /\ bus' = [bus EXCEPT ![dst] = r.bus]
              /\ panicked' = (r.res = "panic")
              /\ last' = [NoOp EXCEPT !.op = "connect_to", !.dst = dst, !.src = src,
                                      !.srclist = srclist, !.dstlist = dstlist,
                                      !.res = r.res, !.err = r.err, !.pre = bus]
    /\ UNCHANGED <<cellval, pbus, plast, simvars>>

ConnectTo == ConnectToOf(RefBusIds)

\* dst.disconnect(signame) for a reference-bus dst of dsts
DisconnectOf(dsts) ==
    /\ ~panicked
    /\ last.op = "none"
    /\ \E dst \in dsts : \E signame \in NamePool(dst) :
         LET r == RefBus_disconnect(bus[dst], signame) IN
         /\ bus' = [bus EXCEPT ![dst] = r.bus]
         /\ last' = [NoOp EXCEPT !.op = "disconnect", !.dst = dst,
                                 !.dstlist = <<signame>>, !.res = r.res, !.pre = bus]
    /\ UNCHANGED <<cellval, panicked, pbus, plast, simvars>>

Disconnect == DisconnectOf(RefBusIds)

\* dst.disconnect_all() resetting the cells its slots were bound to
DisconnectAll_reset ==
    /\ ~panicked
    /\ last.op = "none"
    /\ \E dst \in RefBusIds :
         /\ bus' = [bus EXCEPT ![dst] = RefBus_disconnect_all(bus[dst])]
         /\ cellval' = [c \in Cells |->
                          IF \E i \in 1 .. len(bus[dst]) : bus[dst].signals[i].sig = c
                          THEN 0 ELSE cellval[c]]
         /\ last' = [NoOp EXCEPT !.op = "disconnect_all", !.dst = dst, !.pre = bus]
    /\ UNCHANGED <<panicked, pbus, plast, simvars>>

\* dst.disconnect_all()
DisconnectAll ==
    /\ ~panicked
    /\ last.op = "none"
    /\ \E dst \in RefBusIds :
         /\ bus' = [bus EXCEPT ![dst] = RefBus_disconnect_all(bus[dst])]
         /\ last' = [NoOp EXCEPT !.op = "disconnect_all", !.dst = dst, !.pre = bus]
    /\ UNCHANGED <<cellval, panicked, pbus, plast, simvars>>

\* Signal::set_val on entry idx of value bus a; the Result of the last
\* wiring call stays with the caller
SetVal ==
    /\ ~panicked
    /\ \E id \in ValueBusIds \cap WireBusIds, v \in Vals :
         \E idx \in 1 .. len(bus[id]) :
            cellval' = [cellval EXCEPT ![bus[id].signals[idx].sig] = v]
    /\ UNCHANGED <<bus, last, panicked, pbus, plast, simvars>>

\* SigTrait::val of slot signame of a reference-bus
ReadVal ==
    /\ ~panicked
    /\ last.op = "none"
    /\ \E dst \in RefBusIds : \E signame \in Range(SigDefs(dst)) :
         LET r == val(get_by_name(bus[dst], signame)[1], cellval) IN
         /\ panicked' = (r.res = "panic")
         /\ last' = [NoOp EXCEPT !.op = "val", !.dst = dst, !.dstlist = <<signame>>,
                                 !.res = r.res, !.value = r.value, !.pre = bus]
    /\ UNCHANGED <<cellval, bus, pbus, plast, simvars>>

\* connect_models(&srcmodel, srclist, &mut dstmodel, dstlist); the two models
\* are different objects.  A model without the interface has no bus whose
\* names the lists could be drawn from, so they are drawn from those of the
\* buses a and c.
SrcPool(m) == IF interface_out(m) # None THEN NamePool(interface_out(m))
              ELSE NamePool("a")
DstPool(m) == IF interface_in(m) # None THEN NamePool(interface_in(m))
              ELSE NamePool("c")

ConnectModels ==
    /\ ~panicked
    /\ last.op = "none"
    /\ \E srcmodel \in ModelIds, dstmodel \in ModelIds :
         /\ srcmodel # dstmodel
         /\ \E srclist \in SeqsUpTo(SrcPool(srcmodel), MaxLen),
               dstlist \in SeqsUpTo(DstPool(dstmodel), MaxLen) :
              LET r == connect_models(bus, srcmodel, srclist, dstmodel, dstlist) IN
              /\ bus' = r.buses
              /\ panicked' = (r.res = "panic")
              /\ last' = [NoOp EXCEPT !.op = "connect_models", !.dst = dstmodel,
                                      !.src = srcmodel, !.srclist = srclist,
                                      !.dstlist = dstlist, !.res = r.res,
                                      !.err = r.err, !.pre = bus]
    /\ UNCHANGED <<cellval, pbus, plast, simvars>>

\* The names and values of the signals pushed in the push scenario
PushNames == {"test1", "test2", "test3"}

\* pbus.push(Signal::new(v, name)).  A Signal of this scenario is the only
\* holder of its cell and is written with the cell's value in place.  plast
\* keeps the call, its outcome, the bus before it and the signals that the
\* successful calls so far were given, in call order.
Push ==
    /\ \E name \in PushNames, v \in Vals :
         LET signal == [name |-> name, sig |-> v]
             r == push(pbus, signal)
         IN
         /\ pbus' = r.bus
         /\ plast' = [res |-> IF r.ok THEN "Ok" ELSE "Err", signal |-> signal,
                      pre |-> pbus,
                      pushed |-> IF r.ok THEN Append(plast.pushed, signal)
                                 ELSE plast.pushed]
    /\ UNCHANGED <<cellval, bus, last, panicked, simvars>>

\* Wiring the reference-buses b and c with connect_to
Next == ConnectTo \/ Disconnect \/ DisconnectAll \/ DropResult

Spec == Init /\ [][Next]_vars

\* Values read through reference slots: with b connected to a as in
\* refbus_connect2, c is connected to a or to b and disconnected, the signals
\* of a are set and the slots of b and c are read
InitVal ==
    /\ cellval = [c \in Cells |-> 0]
    /\ bus = ChainedBuses
    /\ last = NoOp
    /\ panicked = FALSE
    /\ pbus = BusCore_new
    /\ plast = [res |-> "none", signal |-> [name |-> None, sig |-> 0],
                pre |-> BusCore_new, pushed |-> <<>>]
    /\ SimIdle

ConnectToC == ConnectToOf({"c"})

DisconnectC == DisconnectOf({"c"})

NextVal == ConnectToC \/ DisconnectC \/ SetVal \/ ReadVal \/ DropResult

SpecVal == InitVal /\ [][NextVal]_vars

\* dst.export_to_matrix() of a reference-bus, which reads every slot
ExportToMatrix ==
    /\ ~panicked
    /\ last.op = "none"
    /\ \E dst \in RefBusIds :
         /\ panicked' = has_unbound(bus[dst])
         /\ last' = [NoOp EXCEPT
                        !.op = "export_to_matrix", !.dst = dst, !.pre = bus,
                        !.res = IF has_unbound(bus[dst]) THEN "panic" ELSE "Ok",
                        !.value = IF has_unbound(bus[dst]) THEN None
                                  ELSE export_to_matrix(bus[dst], cellval)]
    /\ UNCHANGED <<cellval, bus, pbus, plast, simvars>>

\* The call op of a value bus that left the cell values sv
ValueBusCall(op, id, sv) ==
    /\ cellval' = sv
    /\ last' = [NoOp EXCEPT !.op = op, !.dst = id, !.pre = bus]
    /\ UNCHANGED <<bus, panicked, pbus, plast, simvars>>

\* id.import_matrix(&matrix) for a column vector as long as the value bus
ImportMatrix ==
    /\ ~panicked
    /\ last.op = "none"
    /\ \E id \in ValueBusIds : \E v \in [1 .. len(bus[id]) -> Vals] :
         ValueBusCall("import_matrix", id, import_matrix(bus[id], col_vec(v), cellval))

\* id.zero_reset() of a value bus
ZeroReset ==
    /\ ~panicked
    /\ last.op = "none"
    /\ \E id \in ValueBusIds :
         ValueBusCall("zero_reset", id, zero_reset(bus[id], cellval))

\* id.set_all(value) of a value bus
SetAll ==
    /\ ~panicked
    /\ last.op = "none"
    /\ \E id \in ValueBusIds, value \in Vals :
         ValueBusCall("set_all", id, set_all(bus[id], value, cellval))

\* The name lists of the cell scenario: one name of the bus, or all of them
\* in the order of the bus
CellLists(id) == {<<n>> : n \in Range(SigDefs(id))} \cup {SigDefs(id)}

\* c.connect_to(&src, srclist, dstlist) for a source among the buses a and b
ConnectCells ==
    /\ ~panicked
    /\ last.op = "none"
    /\ \E src \in {"a", "b"} :
         \E srclist \in CellLists(src), dstlist \in CellLists("c") :
            LET r == RefBus_connect_to(bus["c"], bus[src], srclist, dstlist) IN
            /\ bus' = [bus EXCEPT !["c"] = r.bus]
            /\ panicked' = (r.res = "panic")
            /\ last' = [NoOp EXCEPT !.op = "connect_to", !.dst = "c", !.src = src,
                                    !.srclist = srclist, !.dstlist = dstlist,
                                    !.res = r.res, !.err = r.err, !.pre = bus]
    /\ UNCHANGED <<cellval, pbus, plast, simvars>>

\* Reference-buses wired and read while the value buses are written
NextCells ==
    \/ ConnectCells \/ DisconnectC \/ DisconnectAll \/ ReadVal \/ ExportToMatrix
    \/ SetVal \/ ImportMatrix \/ ZeroReset \/ SetAll \/ DropResult

SpecCells == InitVal /\ [][NextCells]_vars

\* Wiring through connect_models
NextModels == ConnectModels \/ Disconnect \/ DisconnectAll \/ DropResult

SpecModels == Init /\ [][NextModels]_vars

\* Filling one bus with push
NextPush == Push

SpecPush == Init /\ [][NextPush]_vars

-----------------------------------------------------------------------------
(* The scheduler: registration and run()                                   *)

\* The wiring scenario as constructed and left alone
WireIdle ==
    /\ cellval = [c \in Cells |-> 0]
    /\ bus = NewBuses
    /\ last = NoOp
    /\ panicked = FALSE
    /\ pbus = BusCore_new
    /\ plast = [res |-> "none", signal |-> [name |-> None, sig |-> 0],
                pre |-> BusCore_new, pushed |-> <<>>]

\* SimSystem::new(start_time, end_time, delta_t) with the units constructed
\* and wired by connect_models
InitRun ==
    /\ WireIdle
    /\ \E start_time \in 0 .. 1, end_time \in 1 .. MaxEnd, delta_t \in 1 .. MaxDt :
          sys = SimSystem_new(start_time, end_time, delta_t)
    /\ sigval = [c \in SimCells |-> 0]
    /\ \E setting \in StepSettings, w \in Wirings : mdl = Wire(NewUnits(setting), w)
    /\ pc = Idle
    /\ log = NoLog
    /\ ret = NoRet

\* The values a unit reads from its input bus and shows on its output bus
Inputs(self, sv) ==
    IF has_unbound(unit_interface_in(self)) THEN <<>>
    ELSE to_vec_f64(unit_interface_in(self), sv)

Outputs(self, sv) == to_vec_f64(unit_interface_out(self), sv)

\* The log after the call op of unit u, which read the values in and left
\* the values out on its output bus
Logged(l, op, u, in, out) ==
    [l EXCEPT
       !.calls = Append(@, [op |-> op, unit |-> u, u |-> in, y |-> out]),
       !.life[u] =
          CASE op = "initialize" ->
                  [@ EXCEPT !.ninit = @ + 1,
                            !.state = IF @ = "Uninitialized" THEN "Initialized"
                                      ELSE "Bad"]
            [] op = "nextstate" ->
                  [@ EXCEPT !.nstep = @ + 1,
                            !.state = IF @ \in {"Initialized", "Stepping"}
                                      THEN "Stepping" ELSE "Bad"]
            [] op = "finalize" ->
                  [@ EXCEPT !.nfin = @ + 1,
                            !.state = IF @ \in {"Initialized", "Stepping"}
                                      THEN "Finalized" ELSE "Bad"]]

\* sys.regist_model(m) for a model not yet moved into the system
RegistModel ==
    /\ pc.phase = "idle"
    /\ log.runs = 0
    /\ \E m \in SimModelIds \ Range(log.order) :
          /\ sys' = regist_model(sys, m)
          /\ log' = [log EXCEPT !.order = Append(@, m)]
    /\ ret' = NoRet
    /\ UNCHANGED <<sigval, mdl, pc, wirevars>>

\* sys.regist_recorder(name, r) for a recorder not yet moved into the system
RegistRecorder ==
    /\ pc.phase = "idle"
    /\ log.runs = 0
    /\ \E name \in RecNames, r \in SimRecIds \ log.moved :
          /\ sys' = regist_recorder(sys, name, r)
          /\ log' = [log EXCEPT !.moved = @ \cup {r}]
          /\ ret' = [NoRet EXCEPT !.op = "regist_recorder", !.name = name,
                                  !.recorder = r, !.pre = sys.recorders]
    /\ UNCHANGED <<sigval, mdl, pc, wirevars>>

\* sys.get_recorder(name)
GetRecorder ==
    /\ pc.phase = "idle"
    /\ \E name \in RecNames \cup {NoSig} :
          LET r == get_recorder(sys, name) IN
          ret' = [NoRet EXCEPT !.op = "get_recorder", !.name = name,
                               !.recorder = r.recorder, !.res = r.res,
                               !.pre = sys.recorders]
    /\ UNCHANGED <<sys, sigval, mdl, pc, log, wirevars>>

\* run() entering its while loop without having called initialize()
RunStart_noinit ==
    /\ pc.phase = "idle"
    /\ log.runs < MaxRuns
    /\ pc' = [phase |-> "loop", idx |-> 1, todo |-> {}]
    /\ log' = [log EXCEPT !.calls = <<>>, !.runs = @ + 1, !.tickstart = sigval,
                          !.life = [u \in SimUnitIds |-> NewLife]]
    /\ ret' = NoRet
    /\ UNCHANGED <<sys, sigval, mdl, wirevars>>

\* run() is entered with initialize() going to the recorders and on to the
\* while loop
RunStart_recorders ==
    /\ pc.phase = "idle"
    /\ log.runs < MaxRuns
    /\ sys' = [sys EXCEPT !.sim_time = SimTime_reset(@)]
    /\ pc' = advance(sys', [phase |-> "init_recorders", idx |-> 1,
                            todo |-> Recorders(sys)])
    /\ log' = [log EXCEPT !.calls = <<>>, !.runs = @ + 1, !.tickstart = sigval,
                          !.life = [u \in SimUnitIds |-> NewLife]]
    /\ ret' = NoRet
    /\ UNCHANGED <<sigval, mdl, wirevars>>

\* run() is entered: initialize() resets the clock and goes to the models
RunStart ==
    /\ pc.phase = "idle"
    /\ log.runs < MaxRuns
    /\ sys' = [sys EXCEPT !.sim_time = SimTime_reset(@)]
    /\ pc' = advance(sys', [phase |-> "init_models", idx |-> 1, todo |-> {}])
    /\ log' = [log EXCEPT !.calls = <<>>, !.runs = @ + 1, !.tickstart = sigval,
                          !.life = [u \in SimUnitIds |-> NewLife]]
    /\ ret' = NoRet
    /\ UNCHANGED <<sigval, mdl, wirevars>>

\* The call op of run() on unit u with run() going on after a panic
Call_resume(op, u, p) ==
    LET r == CASE op = "initialize" -> initialize(mdl[u], sys.sim_time, sigval)
               [] op = "nextstate" -> nextstate(mdl[u], sys.sim_time, sigval)
               [] op = "finalize" -> [res |-> "Ok", self |-> finalize(mdl[u]),
                                      sv |-> sigval]
    IN
    /\ mdl' = [mdl EXCEPT ![u] = r.self]
    /\ sigval' = r.sv
    /\ log' = Logged(log, op, u, Inputs(mdl[u], sigval), Outputs(r.self, r.sv))
    /\ pc' = advance(sys, p)
    /\ UNCHANGED <<sys, ret, wirevars>>

\* The call op of run() on unit u, after which run() is at position p
Call(op, u, p) ==
    LET r == CASE op = "initialize" -> initialize(mdl[u], sys.sim_time, sigval)
               [] op = "nextstate" -> nextstate(mdl[u], sys.sim_time, sigval)
               [] op = "finalize" -> [res |-> "Ok", self |-> finalize(mdl[u]),
                                      sv |-> sigval]
    IN
    /\ mdl' = [mdl EXCEPT ![u] = r.self]
    /\ sigval' = r.sv
    /\ log' = Logged(log, op, u, Inputs(mdl[u], sigval), Outputs(r.self, r.sv))
    /\ pc' = IF r.res = "panic"
             THEN [phase |-> "panicked", idx |-> 1, todo |-> {}]
             ELSE advance(sys, p)
    /\ UNCHANGED <<sys, ret, wirevars>>

\* initialize(): mdl.initialize(&self.sim_time) of the next model
InitializeModel ==
    /\ pc.phase = "init_models"
    /\ Call("initialize", models_iter(sys.models, pc.idx), [pc EXCEPT !.idx = @ + 1])

\* initialize(): rcd.initialize(&self.sim_time) of a recorder not yet visited;
\* the HashMap visits its values in an order of its own
InitializeRecorder ==
    /\ pc.phase = "init_recorders"
    /\ \E r \in pc.todo : Call("initialize", r, [pc EXCEPT !.todo = @ \ {r}])

\* The head of the while loop of run(): self.sim_time.next().  Some: the
\* clock has moved and the tick goes to the models; None: finalize() begins.
\* Once the initialization of the first run is over its values are kept.
ClockNext ==
    /\ pc.phase = "loop"
    /\ LET n == SimTime_next(sys.sim_time) IN
       IF n = <<>>
       THEN /\ pc' = advance(sys, [phase |-> "fin_models", idx |-> 1, todo |-> {}])
            /\ sys' = sys
       ELSE /\ pc' = advance(sys, [phase |-> "step_models", idx |-> 1, todo |-> {}])
            /\ sys' = [sys EXCEPT !.sim_time = n[1]]
    /\ log' = [log EXCEPT
                 !.calls = <<>>, !.tickstart = sigval,
                 !.first.init =
                    IF log.runs = 1 /\ @ = <<>>
                    THEN <<[sv |-> sigval, models |-> [m \in SimModelIds |-> mdl[m]]]>>
                    ELSE @]
    /\ UNCHANGED <<sigval, mdl, ret, wirevars>>

\* nextstate(): mdl.nextstate(&self.sim_time) of the next model
NextstateModel ==
    /\ pc.phase = "step_models"
    /\ Call("nextstate", models_iter(sys.models, pc.idx), [pc EXCEPT !.idx = @ + 1])

\* nextstate(): rcd.nextstate(&self.sim_time) of a recorder not yet visited
NextstateRecorder ==
    /\ pc.phase = "step_recorders"
    /\ \E r \in pc.todo : Call("nextstate", r, [pc EXCEPT !.todo = @ \ {r}])

\* finalize(): mdl.finalize() of the next model
FinalizeModel ==
    /\ pc.phase = "fin_models"
    /\ Call("finalize", models_iter(sys.models, pc.idx), [pc EXCEPT !.idx = @ + 1])

\* finalize(): rcd.finalize() of a recorder not yet visited
FinalizeRecorder ==
    /\ pc.phase = "fin_recorders"
    /\ \E r \in pc.todo : Call("finalize", r, [pc EXCEPT !.todo = @ \ {r}])

\* run() returns; the records the first run left are kept
RunReturn ==
    /\ pc.phase = "done"
    /\ pc' = Idle
    /\ log' = [log EXCEPT !.first.rec =
                  IF log.runs = 1 THEN <<[r \in SimRecIds |-> mdl[r]]>> ELSE @]
    /\ UNCHANGED <<sys, sigval, mdl, ret, wirevars>>

NextRun ==
    \/ RegistModel \/ RegistRecorder \/ GetRecorder \/ RunStart
    \/ InitializeModel \/ InitializeRecorder \/ ClockNext
    \/ NextstateModel \/ NextstateRecorder
    \/ FinalizeModel \/ FinalizeRecorder \/ RunReturn

SpecRun == InitRun /\ [][NextRun]_vars

-----------------------------------------------------------------------------
(* Properties of the wiring layer                                          *)

\* The cell slot signame of reference-bus b is bound to, or None
sigof(b, signame) == get_by_name(b, signame)[1].sig

Names(b) == DOMAIN b.keytable

\* The last call was dst.connect_to(src, srclist, dstlist)
IsConnect == last.op = "connect_to"

\* C1: whenever connect_to returns an error, every slot of the reference-bus
\* has the binding it had before the call.
C1_AllOrNothing ==
    (IsConnect /\ last.res = "Err") => bus[last.dst] = last.pre[last.dst]

\* C2: connecting an already-bound destination slot fails, and the slot stays
\* bound to the same cell and so reads that cell's value.  At the slot,
\* RefSignal::connect_to of a bound slot is an Err for every source signal;
\* at the bus, a call whose dstlist names a bound slot does not succeed (it
\* is an Err whenever the source is a value bus) and leaves that slot alone.
C2_ReconnectKeepsBinding ==
    /\ \A d \in RefBusIds : \A i \in 1 .. len(bus[d]) :
         is_connected(bus[d].signals[i]) =>
            \A s \in BusIds \ {d} : \A j \in 1 .. len(bus[s]) :
               RefSignal_connect_to(bus[d].signals[i], bus[s].signals[j])
                  = [res |-> "Err", self |-> bus[d].signals[i]]
    /\ IsConnect =>
         \A i \in 1 .. Len(last.dstlist) :
            LET n == last.dstlist[i] IN
            (n \in Names(last.pre[last.dst]) /\ sigof(last.pre[last.dst], n) # None) =>
               /\ last.res # "Ok"
               /\ last.src \in ValueBusIds => last.res = "Err"
               /\ sigof(bus[last.dst], n) = sigof(last.pre[last.dst], n)
               /\ val(get_by_name(bus[last.dst], n)[1], cellval).value
                     = cellval[sigof(last.pre[last.dst], n)]

C2_Witness ==
    /\ IsConnect
    /\ last.res = "Err"
    /\ last.err.kind = "bound"
    /\ last.src \in ValueBusIds
    /\ sigof(bus[last.dst], last.err.dstlist[1])
          # sigof(bus[last.src], last.err.srclist[1])

\* The step rule of C3: a binding never goes from one cell to a different
\* cell in one call; a bound slot changes only by becoming unbound, and only
\* in a disconnect of that slot or a disconnect_all of its bus
C3_Step ==
    \A d \in RefBusIds : \A n \in Names(bus[d]) :
       (sigof(bus[d], n) # None /\ sigof(bus'[d], n) # sigof(bus[d], n)) =>
          /\ sigof(bus'[d], n) = None
          /\ last'.dst = d
          /\ \/ last'.op = "disconnect_all"
             \/ last'.op = "disconnect" /\ last'.dstlist = <<n>>

\* The slots a disconnect or disconnect_all has just unbound
Affected ==
    IF last.op = "disconnect_all" THEN Names(bus[last.dst])
    ELSE IF last.op = "disconnect" /\ last.res = "Ok" THEN {last.dstlist[1]}
    ELSE {}

IsInjective(f) == \A i, j \in DOMAIN f : f[i] = f[j] => i = j

\* Connecting the affected slots, each once, to the names srclist of bus src
\* succeeds and binds them
Rebinds(src, srclist, dstlist) ==
    LET r == RefBus_connect_to(bus[last.dst], bus[src], srclist, dstlist) IN
    /\ r.res = "Ok"
    /\ \A i \in 1 .. Len(dstlist) :
          sigof(r.bus, dstlist[i]) = sigof(bus[src], srclist[i])

\* After a disconnect the affected slots are unbound, and connecting them to
\* any names of a source bus that are in Sources(src) succeeds
C3_After(Sources(_)) ==
    (last.op \in {"disconnect", "disconnect_all"}) =>
       /\ \A n \in Affected : sigof(bus[last.dst], n) = None
       /\ \A src \in WireBusIds \ {last.dst} :
            \A dstlist \in SeqsUpTo(Affected, MaxLen) :
               \A srclist \in [1 .. Len(dstlist) -> Sources(src)] :
                  (dstlist # <<>> /\ IsInjective(dstlist)) =>
                      Rebinds(src, srclist, dstlist)

\* Every name of bus src; the names of src that stand for a cell (all of them
\* on a value bus, the bound slots on a reference-bus)
ExistingNames(src) == Names(bus[src])
CellNames(src) == {n \in Names(bus[src]) : sigof(bus[src], n) # None}

SrcCell(i) == sigof(last.pre[last.src], last.srclist[i])

\* C4: after a successful connect_to, slot dstlist[i] reads the current value
\* of the cell of srclist[i] (of the cell that slot is bound to when the source
\* is a reference-bus), also after later set_val calls.
C4_ReadsSource ==
    (IsConnect /\ last.res = "Ok") =>
       \A i \in 1 .. Len(last.dstlist) :
          val(get_by_name(bus[last.dst], last.dstlist[i])[1], cellval)
             = [res |-> "Ok", value |-> cellval[SrcCell(i)]]

C4_Witness ==
    /\ IsConnect
    /\ last.res = "Ok"
    /\ last.src \in RefBusIds
    /\ Len(last.srclist) = 2
    /\ cellval[SrcCell(1)] # cellval[SrcCell(2)]

\* C7: connect_to with lists of different lengths is an error raised before
\* any name is resolved; no binding changes, whatever the names.
C7_LengthMismatch ==
    (IsConnect /\ Len(last.srclist) # Len(last.dstlist)) =>
       /\ last.res = "Err"
       /\ last.err = [kind |-> "len", dstlist |-> <<>>, srclist |-> <<>>]
       /\ bus = last.pre

C7_Witness ==
    /\ IsConnect
    /\ last.srclist = <<"bus1", "bus2">>
    /\ last.dstlist = <<"refbus1">>
    /\ sigof(last.pre[last.dst], "refbus1") = None

\* C8: the error of a failed connect_to names every unresolved name of the
\* call: every srclist name that is not in the source bus and every dstlist
\* name that is not in the reference-bus or is already bound.
C8_ConsolidatedReport ==
    (IsConnect /\ last.res = "Err" /\ Len(last.srclist) = Len(last.dstlist)) =>
       \A i \in 1 .. Len(last.srclist) :
          /\ last.srclist[i] \notin Names(last.pre[last.src])
                => last.srclist[i] \in Range(last.err.srclist)
          /\ (\/ last.dstlist[i] \notin Names(last.pre[last.dst])
              \/ sigof(last.pre[last.dst], last.dstlist[i]) # None)
                => last.dstlist[i] \in Range(last.err.dstlist)

\* C9: reading an unbound slot panics and returns no value; reading a bound
\* slot returns a value.
C9_UnboundReadPanics ==
    (last.op = "val") =>
       IF sigof(last.pre[last.dst], last.dstlist[1]) = None
       THEN last.res = "panic" /\ last.value = None /\ panicked
       ELSE last.res = "Ok" /\ last.value \in Vals /\ ~panicked

C9_Witness == last.op = "val" /\ last.res = "panic"

\* The last call was connect_models(src, srclist, dst, dstlist)
IsConnectModels == last.op = "connect_models"

\* C10: connect_models is an error that changes no binding when the source
\* model has no output interface or the destination model no input interface;
\* otherwise its outcome and effect are those of
\* dst.interface_in().connect_to(src.interface_out(), srclist, dstlist).
C10_ConnectModels ==
    IsConnectModels =>
       IF interface_out(last.src) = None \/ interface_in(last.dst) = None
       THEN last.res = "Err" /\ bus = last.pre
       ELSE LET inbus == interface_in(last.dst)
                r == RefBus_connect_to(last.pre[inbus],
                                       last.pre[interface_out(last.src)],
                                       last.srclist, last.dstlist)
            IN /\ last.res = r.res
               /\ last.err = r.err
               /\ bus = [last.pre EXCEPT ![inbus] = r.bus]

C10_Witness ==
    /\ IsConnectModels
    /\ last.src = "model"
    /\ last.dst = "scp"
    /\ last.res = "Ok"
    /\ sigof(bus["c"], "refbus2") = "out1"
    /\ sigof(bus["c"], "refbus1") = "bus1"

\* C5: after any sequence of push calls the names of the bus are pairwise
\* distinct, get_by_name(n) is the entry pushed under n (not found for a name
\* never successfully pushed), and index i holds the i-th successfully pushed
\* entry, the name-to-index table agreeing with the sequence.
C5_PushLookup ==
    /\ \A i, j \in 1 .. len(pbus) :
          pbus.signals[i].name = pbus.signals[j].name => i = j
    /\ len(pbus) = Len(plast.pushed)
    /\ \A i \in 1 .. Len(plast.pushed) :
          /\ pbus.signals[i] = plast.pushed[i]
          /\ pbus.keytable[plast.pushed[i].name] = i - 1
          /\ get_by_name(pbus, plast.pushed[i].name) = <<plast.pushed[i]>>
    /\ \A n \in PushNames :
          (\A i \in 1 .. Len(plast.pushed) : plast.pushed[i].name # n)
             => get_by_name(pbus, n) = <<>>

C5_Witness ==
    /\ len(pbus) = 3
    /\ plast.res = "Ok"
    /\ pbus.signals[1].name = "test3"
    /\ pbus.signals[3].name = "test1"

\* C6: push of a name the bus already holds returns an error and leaves the
\* bus unchanged: same length, same entries in the same order, and the entry
\* of that name keeps its value.
C6_DuplicatePush ==
    /\ (plast.res # "none" /\ plast.signal.name \in Names(plast.pre)) =>
          /\ plast.res = "Err"
          /\ len(pbus) = len(plast.pre)
          /\ pbus.signals = plast.pre.signals
          /\ pbus.keytable = plast.pre.keytable
          /\ get_by_name(pbus, plast.signal.name)
                = get_by_name(plast.pre, plast.signal.name)
    /\ plast.res = "Err" => plast.signal.name \in Names(plast.pre)

C6_Witness ==
    /\ plast.res = "Err"
    /\ get_by_name(pbus, plast.signal.name)[1].sig # plast.signal.sig

-----------------------------------------------------------------------------
(* Properties of the scheduler                                             *)

\* The units registered in the system, and their number
Registered == Range(log.order) \cup Recorders(sys)
NumUnits == Len(log.order) + Cardinality(Recorders(sys))

\* run() is inside a tick, or between two ticks with the calls of the last
\* tick in the log
InTick ==
    \/ pc.phase \in {"step_models", "step_recorders"}
    \/ pc.phase = "loop" /\ sys.sim_time.step >= 1

\* The calls of the current tick are those of a whole tick
TickComplete == Len(log.calls) = NumUnits

\* The state part of C11: the calls of a tick are nextstate calls, first of
\* the models in registration order, then of the recorders, no unit twice
C11_Calls ==
    InTick =>
       /\ Len(log.calls) <= NumUnits
       /\ \A p \in 1 .. Len(log.calls) :
             /\ log.calls[p].op = "nextstate"
             /\ IF p <= Len(log.order)
                THEN log.calls[p].unit = log.order[p]
                ELSE log.calls[p].unit \in Recorders(sys)
       /\ \A p, q \in 1 .. Len(log.calls) :
             log.calls[p].unit = log.calls[q].unit => p = q
       /\ pc.phase = "loop" =>
             /\ TickComplete
             /\ \A u \in Registered : log.life[u].nstep = sys.sim_time.step

\* The step part of C11: the clock moves to the next tick only when every
\* model and recorder has been stepped in the current one
C11_NextTick ==
    (sys'.sim_time.step = sys.sim_time.step + 1 /\ sys.sim_time.step >= 1)
       => TickComplete /\ pc.phase = "loop"

\* C11: during run(), in every tick nextstate is called on every registered
\* model exactly once in registration order, and only after the last model on
\* every recorder exactly once; the next tick begins only after that.
C11_TickOrder == [](C11_Calls) /\ [][C11_NextTick]_vars

C11_Witness ==
    /\ pc.phase = "loop"
    /\ sys.sim_time.step = 2
    /\ log.order = <<"mb", "sf", "ma">>
    /\ Len(log.calls) = 5
    /\ log.calls[4].unit = "scp2"
    /\ log.calls[5].unit = "scp1"

\* C12: in every run() each registered model and recorder is initialized
\* exactly once before any nextstate of any model, stepped only between its
\* initialize and its finalize, and finalized exactly once after the last
\* nextstate of the last tick; a run that completes leaves every one of them
\* Finalized.
C12_Lifecycle ==
    /\ \A u \in SimUnitIds :
          /\ log.life[u].state # "Bad"
          /\ log.life[u].ninit <= 1
          /\ log.life[u].nfin <= 1
          /\ u \notin Registered => log.life[u] = NewLife
    /\ (\E u \in Registered : log.life[u].nstep > 0) =>
          \A u \in Registered : log.life[u].ninit = 1
    /\ (\E u \in Registered : log.life[u].nfin > 0) =>
          /\ SimTime_next(sys.sim_time) = <<>>
          /\ \A u \in Registered :
                /\ log.life[u].nstep = sys.sim_time.step
                /\ log.life[u].ninit = 1
    /\ pc.phase = "done" =>
          \A u \in Registered :
             /\ log.life[u].state = "Finalized"
             /\ log.life[u].ninit = 1
             /\ log.life[u].nfin = 1

C12_Witness ==
    /\ pc.phase = "done"
    /\ log.runs = 2
    /\ sys.sim_time.step = 2
    /\ Len(log.order) = 3
    /\ Cardinality(Recorders(sys)) = 2

\* C13: for start_time < end_time and delta_t > 0, after run() a registered
\* recorder holds step_num() + 1 time samples, the clock having yielded
\* exactly step_num() ticks.
C13_SampleCount ==
    (pc.phase = "done" /\ sys.sim_time.start_time < sys.sim_time.end_time) =>
       /\ sys.sim_time.step = step_num(sys.sim_time)
       /\ \A r \in Recorders(sys) :
             Len(mdl[r].timedata) = step_num(sys.sim_time) + 1

\* The model whose output bus holds cell c, and the place of c on that bus
OwnerOf(c) ==
    CHOOSE m \in SimModelIds :
       \E k \in 1 .. len(unit_interface_out(mdl[m])) :
          unit_interface_out(mdl[m]).signals[k].sig = c

PlaceOf(c) ==
    CHOOSE k \in 1 .. len(unit_interface_out(mdl[OwnerOf(c)])) :
       unit_interface_out(mdl[OwnerOf(c)]).signals[k].sig = c

\* The place of model m in the order of registration, 0 when not registered
RegIndex(m) ==
    IF m \in Range(log.order)
    THEN CHOOSE i \in 1 .. Len(log.order) : log.order[i] = m
    ELSE 0

\* C14: the scheduler orders nothing by dependency.  A model stepped in tick
\* k reads from each input the value its producer wrote in tick k when the
\* producer was registered before it, and otherwise the value the cell held
\* when the tick began (written in tick k-1, or initial); either order and
\* cyclic wiring run without error.
C14_NoDependencyOrdering ==
    /\ pc.phase # "panicked"
    /\ InTick =>
          \A p \in 1 .. Len(log.calls) :
             LET e == log.calls[p]
                 inbus == unit_interface_in(mdl[e.unit])
             IN
             e.unit \in SimModelIds =>
                \A i \in 1 .. len(inbus) :
                   LET cell == inbus.signals[i].sig
                       prod == OwnerOf(cell)
                   IN
                   IF RegIndex(prod) > 0 /\ RegIndex(prod) < RegIndex(e.unit)
                   THEN \E q \in 1 .. Len(log.calls) :
                           /\ log.calls[q].unit = prod
                           /\ e.u[i] = log.calls[q].y[PlaceOf(cell)]
                   ELSE e.u[i] = log.tickstart[cell]

C14_Witness ==
    /\ pc.phase = "loop"
    /\ sys.sim_time.step = 2
    /\ log.order = <<"mb", "ma">>
    /\ log.calls[1].u[1] # log.calls[2].y[1]
    /\ log.calls[1].u[1] = log.tickstart["oa"]
    /\ mdl["ma"].input_bus.signals[1].sig = "ob"

\* run() has just finished the initialization of its second pass
SecondInitialized ==
    /\ log.runs = 2
    /\ pc.phase = "loop"
    /\ sys.sim_time.step = 0
    /\ log.first.init # <<>>

\* C16: initialize is idempotent after finalize.  After the initialize of a
\* second run() the state of every registered model and the value of every
\* output cell equal those after the initialize of the first run(), and the
\* second run() leaves in every recorder the series the first one left,
\* initial sample included.
C16_InitializeIdempotent ==
    /\ SecondInitialized =>
          /\ sigval = log.first.init[1].sv
          /\ \A m \in Range(log.order) : mdl[m] = log.first.init[1].models[m]
    /\ (log.runs = 2 /\ pc.phase = "done") =>
          \A r \in Recorders(sys) : mdl[r] = log.first.rec[1][r]

\* The value a step source with the given setting is to show at instant t
StepValue(setting, t) == IF t < setting[3] THEN setting[1] ELSE setting[2]

\* C17: for the step source sf driven by run() and recorded by scp1, at
\* every recorded instant t, the initial sample at start_time included, the
\* output is init if t < step_time and final if t >= step_time, and once
\* final it stays final for the rest of the run.
C17_StepOutput ==
    ("sf" \in Range(log.order) /\ "scp1" \in Recorders(sys)
        /\ log.life["scp1"].ninit = 1) =>
       LET rec == mdl["scp1"]
           setting == mdl["sf"].settings[1]
       IN
       /\ \A i \in 1 .. Len(rec.timedata) :
             rec.storage[1][i] = StepValue(setting, rec.timedata[i])
       /\ \A i, j \in 1 .. Len(rec.timedata) :
             (i < j /\ rec.storage[1][i] = setting[2] /\ setting[1] # setting[2])
                => rec.storage[1][j] = setting[2]

\* The names recorders are registered under
RecorderNames(recorders) == DOMAIN recorders

\* C19: regist_recorder under a name already registered replaces the earlier
\* recorder: the number of recorders does not grow, the name stands for the
\* later recorder, recorders under other names are unaffected, and run()
\* drives the recorders in the map and no recorder that was replaced;
\* get_recorder answers the recorder the name stands for and is an error for
\* a name never registered.
C19_RecorderNames ==
    /\ ret.op = "regist_recorder" =>
          /\ RecorderNames(sys.recorders) = RecorderNames(ret.pre) \cup {ret.name}
          /\ sys.recorders[ret.name] = ret.recorder
          /\ \A n \in RecorderNames(ret.pre) \ {ret.name} :
                sys.recorders[n] = ret.pre[n]
          /\ ret.name \in RecorderNames(ret.pre) =>
                Cardinality(RecorderNames(sys.recorders))
                   = Cardinality(RecorderNames(ret.pre))
    /\ ret.op = "get_recorder" =>
          IF ret.name \in RecorderNames(sys.recorders)
          THEN ret.res = "Ok" /\ ret.recorder = sys.recorders[ret.name]
          ELSE ret.res = "Err"
    /\ Cardinality(RecorderNames(sys.recorders)) <= Cardinality(RecNames)
    /\ \A r \in log.moved \ Recorders(sys) : log.life[r] = NewLife
    /\ pc.phase = "done" =>
          \A r \in Recorders(sys) :
             log.life[r].ninit = 1 /\ log.life[r].nstep = sys.sim_time.step

C19_Witness ==
    /\ ret.op = "get_recorder"
    /\ ret.name = "rec1"
    /\ ret.recorder = "scp2"
    /\ log.moved = {"scp1", "scp2"}
    /\ RecorderNames(sys.recorders) = {"rec1"}
    /\ log.runs = 1
    /\ log.life["scp2"].nfin = 1
    /\ log.life["scp1"] = NewLife
    /\ Len(mdl["scp2"].timedata) >= 2
    /\ mdl["scp1"].timedata = <<>>

-----------------------------------------------------------------------------
(* A state-space model on its own, as in ssm_interfacetest (de_models.rs): *)
(* two states, one input i1 bound to the cell d1 of a data bus, and two    *)
(* outputs o1 and o2; nextstate is called on it directly.                  *)

MaxSteps == 2   \* nextstate is called at most MaxSteps times

SsmCells == {"d1", "o1", "o2"}

\* Row-major slices for the matrices and the state
SsmA == {<<0, 0, 0, 0>>, <<1, 0, 0, 1>>}
SsmB == {<<1, 2>>, <<0, 1>>}
SsmC == {<<1, 0, 0, 1>>, <<0, 1, 1, 0>>}
SsmD == {<<0, 0>>, <<1, 0>>}
SsmX == {<<0, 0>>, <<1, 0>>}

\* The model after new, connect_to of its input and the set_* calls
NewSsm2(a, b, c, d, x, solver) ==
    LET m0 == SpaceStateModel_new(<<"i1">>, <<"o1", "o2">>, 2, solver).self
        m1 == [m0 EXCEPT !.input_bus =
                  RefBus_connect_to(@, Bus_try_from(<<"d1">>), <<"d1">>, <<"i1">>).bus]
        m2 == set_mtrx_a(m1, a).self
        m3 == set_mtrx_b(m2, b).self
        m4 == set_mtrx_c(m3, c).self
        m5 == set_mtrx_d(m4, d).self
    IN set_x(m5, x).self

\* The model is built with the Euler solver and its input cell set
InitSsm ==
    /\ WireIdle
    /\ \E a \in SsmA, b \in SsmB, c \in SsmC, d \in SsmD, x \in SsmX,
          dt \in 1 .. MaxDt, v \in Vals :
          /\ mdl = [ssm |-> NewSsm2(a, b, c, d, x, "Euler")]
          /\ sys = SimSystem_new(0, 1, dt)
          /\ sigval = [cell \in SsmCells |-> IF cell = "d1" THEN v ELSE 0]
    /\ pc = Idle
    /\ log = NoLog
    /\ ret = NoRet

\* databus[0].set_val(v)
SsmSetVal ==
    /\ \E v \in Vals : sigval' = [sigval EXCEPT !["d1"] = v]
    /\ ret' = NoRet
    /\ UNCHANGED <<sys, mdl, pc, log, wirevars>>

\* model.nextstate(&simtime); the model and the cell values before the call
\* are kept in ret
SsmNextstate ==
    /\ pc.idx <= MaxSteps
    /\ LET r == nextstate(mdl["ssm"], sys.sim_time, sigval) IN
       /\ mdl' = [mdl EXCEPT !["ssm"] = r.self]
       /\ sigval' = r.sv
       /\ ret' = [NoRet EXCEPT !.op = "nextstate", !.res = r.res,
                               !.pre = <<[self |-> mdl["ssm"], sv |-> sigval]>>]
    /\ pc' = [pc EXCEPT !.idx = @ + 1]
    /\ UNCHANGED <<sys, log, wirevars>>

\* The state after a direct call op of a solver method with step delta_t,
\* which left the state x; the model, the cell values and the step before
\* the call are kept in ret
SsmSolved(op, delta_t, x) ==
    /\ mdl' = [mdl EXCEPT !["ssm"] = set_state(@, x)]
    /\ ret' = [NoRet EXCEPT !.op = op,
                            !.pre = <<[self |-> mdl["ssm"], sv |-> sigval,
                                       delta_t |-> delta_t]>>]
    /\ pc' = [pc EXCEPT !.idx = @ + 1]
    /\ UNCHANGED <<sys, sigval, log, wirevars>>

\* model.euler_method(delta_t)
SsmEulerMethod ==
    /\ pc.idx <= MaxSteps
    /\ \E delta_t \in 1 .. MaxDt :
          SsmSolved("euler_method", delta_t,
                    euler_method(mdl["ssm"], delta_t, sigval))

\* model.rungekutta_method(delta_t) with a step of six time quanta
SsmRungeKuttaMethod ==
    /\ pc.idx <= MaxSteps
    /\ \E delta_t \in {6} :
          SsmSolved("rungekutta_method", delta_t,
                    rungekutta_method(mdl["ssm"], delta_t, sigval))

NextSsm == SsmSetVal \/ SsmNextstate \/ SsmEulerMethod \/ SsmRungeKuttaMethod

SpecSsm == InitSsm /\ [][NextSsm]_vars

\* Entry i of C x + D u for a two-state, one-input model, written out
ObservationOf(self, x, u, i) ==
    self.mtrx_c[i][1] * x[1][1] + self.mtrx_c[i][2] * x[2][1]
       + self.mtrx_d[i][1] * u

\* The state one Euler step of length delta_t leads to from x under input u
EulerStepOf(self, x, u, delta_t) ==
    [k \in 1 .. 2 |->
        <<x[k][1] + delta_t * (self.mtrx_a[k][1] * x[1][1]
                                 + self.mtrx_a[k][2] * x[2][1]
                                 + self.mtrx_b[k][1] * u)>>]

\* The model of the example: A = identity, B = [1, 2], C = identity, D = 0,
\* x = 0, Euler, with u = 1 and delta_t = 1
IsExample(self, u, delta_t) ==
    /\ self.mtrx_a = <<<<1, 0>>, <<0, 1>>>>
    /\ self.mtrx_b = <<<<1>>, <<2>>>>
    /\ self.mtrx_c = <<<<1, 0>>, <<0, 1>>>>
    /\ self.mtrx_d = <<<<0>>, <<0>>>>
    /\ self.x = <<<<0>>, <<0>>>>
    /\ self.solver = "Euler"
    /\ u = 1
    /\ delta_t = 1

\* C18: after one nextstate of a state-space model the output bus holds
\* y = C x' + D u in output index order, x' being the state after the
\* integration step of that call and u the input at the call; the example
\* model gives the outputs [1, 2].
C18_Observation ==
    ret.op = "nextstate" =>
       LET pre == ret.pre[1].self
           u == ret.pre[1].sv["d1"]
           delta_t == sys.sim_time.delta_t
           after == mdl["ssm"]
       IN
       /\ ret.res = "Ok"
       /\ after.x = integrate(pre, delta_t, ret.pre[1].sv)
       /\ pre.solver = "Euler" => after.x = EulerStepOf(pre, pre.x, u, delta_t)
       /\ sigval["o1"] = ObservationOf(after, after.x, u, 1)
       /\ sigval["o2"] = ObservationOf(after, after.x, u, 2)
       /\ sigval["d1"] = u
       /\ IsExample(pre, u, delta_t) => sigval["o1"] = 1 /\ sigval["o2"] = 2

C18_Witness ==
    /\ ret.op = "nextstate"
    /\ IsExample(ret.pre[1].self, ret.pre[1].sv["d1"], sys.sim_time.delta_t)
    /\ sigval["o1"] = 1
    /\ sigval["o2"] = 2
    /\ mdl["ssm"].x = <<<<1>>, <<2>>>>

\* C23: one explicit-Euler step replaces the state x by x + f(x) * delta_t,
\* f being the derivative function evaluated at the state before the step
\* with the inputs of the call; it changes nothing but the state vector: the
\* input bus and the output bus are as before.
C23_EulerStep ==
    ret.op = "euler_method" =>
       LET pre == ret.pre[1] IN
       /\ mdl["ssm"].x
             = EulerStepOf(pre.self, pre.self.x, pre.sv["d1"], pre.delta_t)
       /\ mdl["ssm"] = [pre.self EXCEPT !.x = mdl["ssm"].x]
       /\ sigval = pre.sv

C23_Witness ==
    /\ ret.op = "euler_method"
    /\ ret.pre[1].delta_t = 2
    /\ ret.pre[1].self.x = <<<<1>>, <<0>>>>
    /\ mdl["ssm"].x = <<<<5>>, <<4>>>>
    /\ sigval["o1"] # ObservationOf(mdl["ssm"], mdl["ssm"].x, sigval["d1"], 1)

\* Entry k of f(x) = A x + B u for a two-state, one-input model, written out
DerivativeOf(self, x1, x2, u, k) ==
    self.mtrx_a[k][1] * x1 + self.mtrx_a[k][2] * x2 + self.mtrx_b[k][1] * u

\* The state one Runge-Kutta step of length delta_t (a multiple of 6) leads
\* to from x under the input u held through the four stages
RungeKuttaStepOf(self, x, u, delta_t) ==
    LET half == delta_t \div 2
        k1 == [k \in 1 .. 2 |-> DerivativeOf(self, x[1][1], x[2][1], u, k)]
        k2 == [k \in 1 .. 2 |->
                 DerivativeOf(self, x[1][1] + k1[1] * half, x[2][1] + k1[2] * half, u, k)]
        k3 == [k \in 1 .. 2 |->
                 DerivativeOf(self, x[1][1] + k2[1] * half, x[2][1] + k2[2] * half, u, k)]
        k4 == [k \in 1 .. 2 |->
                 DerivativeOf(self, x[1][1] + k3[1] * delta_t,
                              x[2][1] + k3[2] * delta_t, u, k)]
    IN [k \in 1 .. 2 |->
          <<x[k][1] + (k1[k] + 2 * k2[k] + 2 * k3[k] + k4[k]) * (delta_t \div 6)>>]

\* C24: one Runge-Kutta step replaces x by x + (k1 + 2 k2 + 2 k3 + k4) *
\* delta_t / 6 with k1 = f(x), k2 = f(x + k1 delta_t / 2), k3 = f(x + k2
\* delta_t / 2), k4 = f(x + k3 delta_t), the four evaluations of f reading
\* the same input values; the inputs and the stored state do not change
\* between the first stage and the final set_state.
C24_RungeKuttaStep ==
    ret.op = "rungekutta_method" =>
       LET pre == ret.pre[1] IN
       /\ mdl["ssm"].x
             = RungeKuttaStepOf(pre.self, pre.self.x, pre.sv["d1"], pre.delta_t)
       /\ mdl["ssm"] = [pre.self EXCEPT !.x = mdl["ssm"].x]
       /\ sigval = pre.sv

C24_Witness ==
    /\ ret.op = "rungekutta_method"
    /\ ret.pre[1].self.mtrx_a = <<<<1, 0>>, <<0, 1>>>>
    /\ ret.pre[1].self.mtrx_b = <<<<1>>, <<2>>>>
    /\ ret.pre[1].self.x = <<<<1>>, <<0>>>>
    /\ ret.pre[1].sv["d1"] = 1
    /\ mdl["ssm"].x = <<<<229>>, <<228>>>>

-----------------------------------------------------------------------------
(* SubSystem (subsystem.rs): a model that owns models of its own behind an *)
(* input bus and an output bus, with a buffer bus for each.  As in         *)
(* SimSystem the internal models are kept in the unit map under their      *)
(* identities.                                                             *)

\* BusCore::copy_val_from_bus: every signal of self takes the value of the
\* signal of src at the same index; reading an unbound slot of src panics
copy_val_from_bus(self, src, sv) ==
    LET k == first_unbound(src)
        n == Min(len(self), Min(len(src), k - 1))
        vals == [i \in 1 .. n |-> sv[src.signals[i].sig]]
    IN [res |-> IF has_unbound(src) THEN "panic" ELSE "Ok",
        sv |-> import_loop(self, vals, sv, 1)]

\* SubSystem::new
SubSystem_new(input_def, output_def, delta_t) ==
    IF ~try_from_is_ok(input_def) \/ ~try_from_is_ok(output_def)
    THEN [res |-> "Err", self |-> None]
    ELSE [res |-> "Ok",
          self |-> [kind |-> "SubSystem",
                    inbus |-> RefBus_try_from(input_def),
                    inbus_buf |-> Bus_try_from(input_def),
                    outbus |-> Bus_try_from(output_def),
                    outbus_buf |-> RefBus_try_from(output_def),
                    models |-> <<>>,
                    delta_t |-> delta_t]]

\* SubSystem::regist_model
SubSystem_regist_model(self, model) == [self EXCEPT !.models = Append(@, model)]

\* SubSystem::connect_inbus: the input bus of the target connected to the
\* input buffer; [res, target]
connect_inbus(self, target_mdl, srclist, dstlist) ==
    IF len(unit_interface_in(target_mdl)) = 0 /\ target_mdl.kind = "StepFunc"
    THEN [res |-> "Err", target |-> target_mdl]
    ELSE LET r == RefBus_connect_to(target_mdl.input_bus, self.inbus_buf,
                                    srclist, dstlist)
         IN [res |-> r.res, target |-> [target_mdl EXCEPT !.input_bus = r.bus]]

\* SubSystem::connect_outbus answering a target without an output bus as
\* connect_inbus answers a target without an input bus
connect_outbus_err(self, target_mdl, srclist, dstlist) ==
    IF target_mdl.kind = "SimRecorder"
    THEN [res |-> "Err", self |-> self]
    ELSE LET r == RefBus_connect_to(self.outbus_buf, unit_interface_out(target_mdl),
                                    srclist, dstlist)
         IN [res |-> r.res, self |-> [self EXCEPT !.outbus_buf = r.bus]]

\* SubSystem::connect_outbus: the output buffer connected to the output bus
\* of the target; Ok with nothing done for a target without one; [res, self]
connect_outbus(self, target_mdl, srclist, dstlist) ==
    IF target_mdl.kind = "SimRecorder"
    THEN [res |-> "Ok", self |-> self]
    ELSE LET r == RefBus_connect_to(self.outbus_buf, unit_interface_out(target_mdl),
                                    srclist, dstlist)
         IN [res |-> r.res, self |-> [self EXCEPT !.outbus_buf = r.bus]]

\* The units with the model of identity m replaced by what the call r left
put_unit(units, m, r) == [units EXCEPT ![m] = r.self]

RECURSIVE SubSystem_init_loop(_, _, _, _, _)
\* What self.models.iter_mut().for_each(|mdl| mdl.initialize(sim_time)) does
\* once the call of the model at idx has answered r
SubSystem_init_call(models, units, sim_time, idx, r) ==
    IF r.res = "panic"
    THEN [res |-> "panic", units |-> put_unit(units, models[idx], r), sv |-> r.sv]
    ELSE SubSystem_init_loop(models, put_unit(units, models[idx], r),
                             sim_time, r.sv, idx + 1)

\* self.models.iter_mut().for_each(|mdl| mdl.initialize(sim_time))
SubSystem_init_loop(models, units, sim_time, sv, idx) ==
    IF idx > Len(models) THEN [res |-> "Ok", units |-> units, sv |-> sv]
    ELSE SubSystem_init_call(models, units, sim_time, idx,
                             initialize(units[models[idx]], sim_time, sv))

\* ModelCore::initialize for SubSystem taking the step size of the clock
\* whatever its own
SubSystem_initialized_assign(self, sim_time, r) ==
    [res |-> r.res,
     self |-> [self EXCEPT !.delta_t = sim_time.delta_t],
     units |-> r.units, sv |-> r.sv]

\* ModelCore::initialize for SubSystem, r being what the loop over the
\* models answered; [res, self, units, sv]
SubSystem_initialized(self, sim_time, r) ==
    [res |-> r.res,
     self |-> [self EXCEPT !.delta_t =
                  IF @ > sim_time.delta_t THEN sim_time.delta_t ELSE @],
     units |-> r.units, sv |-> r.sv]

\* ModelCore::initialize for SubSystem
SubSystem_initialize(self, units, sim_time, sv) ==
    SubSystem_initialized(self, sim_time,
                          SubSystem_init_loop(self.models, units, sim_time, sv, 1))

RECURSIVE SubSystem_step_loop(_, _, _, _, _, _)
\* What the loop of nextstate does once the call of the model at idx, which
\* read the values u, has answered r
SubSystem_step_call(models, units, sim_time, calls, idx, u, r) ==
    IF r.res = "panic"
    THEN [res |-> "panic", units |-> put_unit(units, models[idx], r), sv |-> r.sv,
          calls |-> calls]
    ELSE SubSystem_step_loop(
            models, put_unit(units, models[idx], r), sim_time, r.sv,
            Append(calls, [unit |-> models[idx], sim_time |-> sim_time, u |-> u,
                           y |-> Outputs(r.self, r.sv)]),
            idx + 1)

\* self.models.iter_mut().for_each(|mdl| mdl.nextstate(sim_time)), with the
\* calls made: the model, the clock it was given, the values it read and
\* the values it left on its output bus
SubSystem_step_loop(models, units, sim_time, sv, calls, idx) ==
    IF idx > Len(models)
    THEN [res |-> "Ok", units |-> units, sv |-> sv, calls |-> calls]
    ELSE SubSystem_step_call(models, units, sim_time, calls, idx,
                             Inputs(units[models[idx]], sv),
                             nextstate(units[models[idx]], sim_time, sv))

\* The end of SubSystem::nextstate: st is what the loop over the models
\* answered and cout the copy of the output buffer into the output bus
SubSystem_copied_out(st, cout) ==
    IF st.res = "panic" THEN st
    ELSE [res |-> cout.res, units |-> st.units, sv |-> cout.sv, calls |-> st.calls]

\* SubSystem::nextstate after the copy cin of the input bus into its buffer
\* and the loop st over the models
SubSystem_stepped(self, units, cin, st) ==
    IF cin.res = "panic"
    THEN [res |-> "panic", units |-> units, sv |-> cin.sv, calls |-> <<>>]
    ELSE SubSystem_copied_out(st, copy_val_from_bus(self.outbus, self.outbus_buf, st.sv))

\* SubSystem::nextstate after the copy cin of the input bus into its buffer
SubSystem_copied_in(self, units, sim_time, cin) ==
    SubSystem_stepped(self, units, cin,
                      SubSystem_step_loop(self.models, units, sim_time, cin.sv, <<>>, 1))

\* SubSystem::nextstate copying the output buffer out before the models step
SubSystem_nextstate_outfirst(self, units, sim_time, sv) ==
    SubSystem_step_loop(
       self.models, units, sim_time,
       copy_val_from_bus(self.outbus, self.outbus_buf,
                         copy_val_from_bus(self.inbus_buf, self.inbus, sv).sv).sv,
       <<>>, 1)

\* ModelCore::nextstate for SubSystem: the input bus is copied into its
\* buffer, every model is stepped, the output buffer is copied into the
\* output bus; [res, units, sv, calls]
SubSystem_nextstate(self, units, sim_time, sv) ==
    SubSystem_copied_in(self, units, sim_time,
                        copy_val_from_bus(self.inbus_buf, self.inbus, sv))

-----------------------------------------------------------------------------
(* The SubSystem scenario: a subsystem sub with the input sin, bound to    *)
(* the cell ext of a data bus, and the output sout; inside it the models p *)
(* and q (dx/dt = u, y = x), p reading sin and q reading the output of p.  *)

SubModelIds == {"p", "q"}
SubCells == {"ext", "sin", "sout", "po", "qo"}

\* The orders p and q are registered in
SubOrders == {<<"p", "q">>, <<"q", "p">>}

\* The units after construction and wiring: sout shows the output of the
\* model outsrc, the models are registered in the given order
NewSubUnits(order, outsrc, delta_t) ==
    LET s0 == SubSystem_new(<<"sin">>, <<"sout">>, delta_t).self
        s1 == [s0 EXCEPT !.inbus =
                  RefBus_connect_to(@, Bus_try_from(<<"ext">>), <<"ext">>, <<"sin">>).bus]
        p == connect_inbus(s1, NewSsm("pi", "po", 0), <<"sin">>, <<"pi">>).target
        q0 == NewSsm("qi", "qo", 0)
        q == [q0 EXCEPT !.input_bus =
                 RefBus_connect_to(@, p.output_bus, <<"po">>, <<"qi">>).bus]
        s2 == IF outsrc = "p"
              THEN connect_outbus(s1, p, <<"po">>, <<"sout">>).self
              ELSE connect_outbus(s1, q, <<"qo">>, <<"sout">>).self
        s3 == SubSystem_regist_model(SubSystem_regist_model(s2, order[1]), order[2])
    IN [sub |-> s3, p |-> p, q |-> q]

InitSub ==
    /\ WireIdle
    /\ \E order \in SubOrders, outsrc \in SubModelIds, d \in 1 .. MaxDt + 1 :
          mdl = NewSubUnits(order, outsrc, d)
    /\ \E delta_t \in 1 .. MaxDt : sys = SimSystem_new(0, 1, delta_t)
    /\ \E v \in Vals : sigval = [c \in SubCells |-> IF c = "ext" THEN v ELSE 0]
    /\ pc = Idle
    /\ log = NoLog
    /\ ret = NoRet

\* The owner of the data bus writes its cell between two calls
SubSetVal ==
    /\ \E v \in Vals : sigval' = [sigval EXCEPT !["ext"] = v]
    /\ ret' = NoRet
    /\ UNCHANGED <<sys, mdl, pc, log, wirevars>>

\* The state after a call of the subsystem that answered r
SubReturned(op, r) ==
    /\ mdl' = r.units
    /\ sigval' = r.sv
    /\ ret' = [NoRet EXCEPT !.op = op, !.res = r.res,
                            !.pre = <<[units |-> mdl, sv |-> sigval]>>]
    /\ log' = [log EXCEPT !.calls = r.calls]

\* The answer of SubSystem::initialize with the subsystem put among the units
SubInitialized(r) ==
    [res |-> r.res, units |-> [r.units EXCEPT !["sub"] = r.self], sv |-> r.sv,
     calls |-> <<>>]

\* sub.initialize(&sim_time)
SubInitialize ==
    /\ pc.idx <= MaxSteps
    /\ SubReturned("initialize",
          SubInitialized(SubSystem_initialize(mdl["sub"], mdl, sys.sim_time, sigval)))
    /\ UNCHANGED <<sys, pc, wirevars>>

\* sub.nextstate(&sim_time); the units and the cell values before the call
\* are kept in ret, the calls it made in log
SubNextstate ==
    /\ pc.idx <= MaxSteps
    /\ SubReturned("nextstate",
                   SubSystem_nextstate(mdl["sub"], mdl, sys.sim_time, sigval))
    /\ pc' = [pc EXCEPT !.idx = @ + 1]
    /\ UNCHANGED <<sys, wirevars>>

\* The owner of the clock changes its step size between two calls
SubChangeDeltaT ==
    /\ \E delta_t \in 1 .. MaxDt :
          /\ delta_t # sys.sim_time.delta_t
          /\ sys' = [sys EXCEPT !.sim_time = change_delta_t(@, delta_t)]
    /\ ret' = NoRet
    /\ UNCHANGED <<sigval, mdl, pc, log, wirevars>>

NextSub == SubSetVal \/ SubChangeDeltaT \/ SubInitialize \/ SubNextstate

SpecSub == InitSub /\ [][NextSub]_vars

\* The place of model m in the models of the subsystem
SubIndex(m) == CHOOSE i \in 1 .. Len(mdl["sub"].models) : mdl["sub"].models[i] = m

\* C15: one nextstate of a SubSystem copies the values of its input bus into
\* its input buffer, calls nextstate once on each internal model in internal
\* registration order with the outer clock, then copies the values read
\* through its output buffer into its output bus: afterwards the output
\* equals the current output of the internal cell wired by connect_outbus,
\* and a model wired by connect_inbus has read the external input as it was
\* when the call began.
C15_SubSystemTick ==
    ret.op = "nextstate" =>
       LET pre == ret.pre[1]
           sub == mdl["sub"]
           delta_t == sys.sim_time.delta_t
           wired == sub.outbus_buf.signals[1].sig
       IN
       /\ ret.res = "Ok"
       /\ sigval["ext"] = pre.sv["ext"]
       /\ sigval["sin"] = pre.sv["ext"]
       /\ Len(log.calls) = Len(sub.models)
       /\ \A i \in 1 .. Len(log.calls) :
             /\ log.calls[i].unit = sub.models[i]
             /\ log.calls[i].sim_time = sys.sim_time
       /\ log.calls[SubIndex("p")].u = <<pre.sv["ext"]>>
       /\ log.calls[SubIndex("q")].u =
             IF SubIndex("p") < SubIndex("q") THEN <<sigval["po"]>>
             ELSE <<pre.sv["po"]>>
       /\ \A m \in SubModelIds :
             /\ mdl[m].x[1][1] = pre.units[m].x[1][1]
                                    + delta_t * log.calls[SubIndex(m)].u[1]
             /\ sigval[mdl[m].output_bus.signals[1].sig] = mdl[m].x[1][1]
       /\ wired \in {"po", "qo"}
       /\ sigval["sout"] = sigval[wired]
       /\ mdl["sub"] = pre.units["sub"]

C15_Witness ==
    /\ ret.op = "nextstate"
    /\ pc.idx = 3
    /\ mdl["sub"].models = <<"q", "p">>
    /\ mdl["sub"].outbus_buf.signals[1].sig = "qo"
    /\ sigval["sout"] = sigval["qo"]
    /\ sigval["sout"] > 0
    /\ sigval["sin"] # ret.pre[1].sv["sin"]
    /\ sigval["qo"] # ret.pre[1].sv["qo"]

\* The state part of C22: what one call leaves of delta_t
C22_Clamped ==
    /\ ret.op = "initialize" =>
          mdl["sub"].delta_t
             = Min(ret.pre[1].units["sub"].delta_t, sys.sim_time.delta_t)
    /\ ret.op = "nextstate" =>
          mdl["sub"].delta_t = ret.pre[1].units["sub"].delta_t

\* The step part of C22: no step raises delta_t
C22_NotRaised == mdl'["sub"].delta_t <= mdl["sub"].delta_t

\* C22: after SubSystem::initialize(clock) the delta_t of the subsystem is
\* the smaller of its previous delta_t and the clock's: lowered to the step
\* size of the scheduler when larger, unchanged otherwise; over any sequence
\* of initialize calls it never increases, and nextstate never changes it.
C22_DeltaTClamp == [](C22_Clamped) /\ [][C22_NotRaised]_vars

C22_Witness ==
    /\ ret.op = "initialize"
    /\ pc.idx >= 2
    /\ ret.pre[1].units["sub"].delta_t = 2
    /\ sys.sim_time.delta_t = 1
    /\ mdl["sub"].delta_t = 1

-----------------------------------------------------------------------------
(* Construction (de_models.rs, source_models.rs, subsystem.rs): the        *)
(* constructors and setters called on their own, with the Result of the    *)
(* last call kept in ret.                                                  *)

\* usize::MAX; it stands for 2^64 - 1, which takes part in comparisons only
UsizeMax == 2147483647

\* a - b on usize as <<difference>>.  When it underflows the build decides:
\* with overflow checks (debug) the subtraction panics, <<>>; without them
\* (release) it wraps around
usize_sub(a, b, overflow_checks) ==
    IF a >= b THEN <<a - b>>
    ELSE IF overflow_checks THEN <<>>
    ELSE <<UsizeMax - (b - a) + 1>>

\* The slice mtrx_a of crate_ssm_from_tf (row-major, companion form)
tf_mtrx_a(den, sdim) ==
    [i \in 1 .. sdim * sdim |->
        LET r == (i - 1) \div sdim
            c == (i - 1) % sdim
        IN IF r > 0 /\ c = r - 1 THEN 1
           ELSE IF c = sdim - 1 THEN (0 - den[sdim - r + 1]) \div den[1]
           ELSE 0]

\* The slice mtrx_b of crate_ssm_from_tf
tf_mtrx_b(num, den, sdim, bn) ==
    [i \in 1 .. sdim |->
        IF i - 1 < Len(num)
        THEN (num[Len(num) - (i - 1)] - den[sdim - (i - 1) + 1] * bn) \div den[1]
        ELSE (0 - den[sdim - (i - 1) + 1] * bn) \div den[1]]

\* crate_ssm_from_tf once the model is constructed and num.len() - 1 is nl
tf_fill(num, den, sdim, model, nl) ==
    IF nl = <<>> THEN [res |-> "panic", self |-> None]
    ELSE LET bn == IF nl[1] = sdim THEN num[1] ELSE 0
             m1 == set_mtrx_a(model, tf_mtrx_a(den, sdim)).self
             m2 == set_mtrx_b(m1, tf_mtrx_b(num, den, sdim, bn)).self
             m3 == set_mtrx_c(m2, [i \in 1 .. sdim |-> IF i = sdim THEN 1 ELSE 0]).self
         IN [res |-> "Ok", self |-> set_mtrx_d(m3, <<bn>>).self]

\* crate_ssm_from_tf once den.len() - 1 is sd.  A model of usize::MAX
\* states cannot be allocated: SpaceStateModel::new panics.
tf_checked(num, den, input_def, output_def, solvertype, overflow_checks, sd) ==
    IF sd = <<>> THEN [res |-> "panic", self |-> None]
    ELSE IF sd[1] < 1 THEN [res |-> "Err", self |-> None]
    ELSE IF Len(num) > Len(den) THEN [res |-> "Err", self |-> None]
    ELSE IF Len(input_def) # 1 \/ Len(output_def) # 1
    THEN [res |-> "Err", self |-> None]
    ELSE IF sd[1] = UsizeMax THEN [res |-> "panic", self |-> None]
    ELSE tf_fill(num, den, sd[1],
                 SpaceStateModel_new(input_def, output_def, sd[1], solvertype).self,
                 usize_sub(Len(num), 1, overflow_checks))

\* crate_ssm_from_tf of a build with or without overflow checks
crate_ssm_from_tf(num, den, input_def, output_def, solvertype, overflow_checks) ==
    tf_checked(num, den, input_def, output_def, solvertype, overflow_checks,
               usize_sub(Len(den), 1, overflow_checks))

\* TransFuncModel::new given what crate_ssm_from_tf answered
TransFuncModel_of(num_coef, den_coef, r) ==
    IF r.res # "Ok" THEN r
    ELSE [res |-> "Ok",
          self |-> [kind |-> "TransFuncModel", model |-> r.self,
                    num |-> num_coef, den |-> den_coef]]

\* TransFuncModel::new
TransFuncModel_new(input_def, output_def, num_coef, den_coef, solvertype, overflow_checks) ==
    TransFuncModel_of(num_coef, den_coef,
       crate_ssm_from_tf(num_coef, den_coef, input_def, output_def, solvertype,
                         overflow_checks))

\* The setter of the given name applied to a state-space model
call_setter(setter, self, slice) ==
    CASE setter = "set_init_state" -> set_init_state(self, slice)
      [] setter = "set_x" -> set_x(self, slice)
      [] setter = "set_mtrx_a" -> set_mtrx_a(self, slice)
      [] setter = "set_mtrx_b" -> set_mtrx_b(self, slice)
      [] setter = "set_mtrx_c" -> set_mtrx_c(self, slice)
      [] setter = "set_mtrx_d" -> set_mtrx_d(self, slice)

\* The signal definitions given to constructors: none, one, two, a name twice
DefPool == {<<>>, <<"s1">>, <<"s1", "s2">>, <<"s1", "s1">>}

\* The coefficient lists given as numerator and as denominator: every
\* length up to MaxLen + 1, the coefficients all 1
CoefPool == SeqsUpTo({1}, MaxLen + 1)

\* A state-space model with one state, one input and one output exists
InitNew ==
    /\ WireIdle
    /\ sys = SimSystem_new(0, 1, 1)
    /\ sigval = [c \in {"o1"} |-> 0]
    /\ mdl = [ssm |-> NewSsm("i1", "o1", 0)]
    /\ pc = Idle
    /\ log = NoLog
    /\ ret = NoRet

\* The Result r of the call op with the arguments args goes to the caller,
\* who has dropped the Result of the call before
Returned(op, args, r) ==
    /\ ret.op = "none"
    /\ ret' = [NoRet EXCEPT !.op = op, !.res = r.res,
                            !.pre = <<[args |-> args, self |-> mdl["ssm"]]>>]
    /\ UNCHANGED <<sys, sigval, pc, log, wirevars>>

\* StepFunc::new(output_def, settings)
NewStepFunc ==
    /\ \E output_def \in DefPool, n \in 0 .. MaxLen :
          Returned("StepFunc_new", <<output_def, n>>,
                   StepFunc_new(output_def, [i \in 1 .. n |-> <<0, 1, 1>>]))
    /\ UNCHANGED mdl

\* SpaceStateModel::new(input_def, output_def, sdim, solvertype)
NewSpaceStateModel ==
    /\ \E input_def \in DefPool, output_def \in DefPool, sdim \in 0 .. MaxLen :
          Returned("SpaceStateModel_new", <<input_def, output_def, sdim>>,
                   SpaceStateModel_new(input_def, output_def, sdim, "Euler"))
    /\ UNCHANGED mdl

\* SubSystem::new(input_def, output_def, delta_t)
NewSubSystem ==
    /\ \E input_def \in DefPool, output_def \in DefPool :
          Returned("SubSystem_new", <<input_def, output_def>>,
                   SubSystem_new(input_def, output_def, 1))
    /\ UNCHANGED mdl

\* TransFuncModel::new(input_def, output_def, num_coef, den_coef, solvertype)
\* in a build with or without overflow checks
NewTransFuncModel ==
    /\ \E input_def \in DefPool, output_def \in DefPool, num \in CoefPool,
          den \in CoefPool, overflow_checks \in BOOLEAN :
          Returned("TransFuncModel_new",
                   <<input_def, output_def, num, den, overflow_checks>>,
                   TransFuncModel_new(input_def, output_def, num, den, "Euler",
                                      overflow_checks))
    /\ UNCHANGED mdl

\* model.set_init_state / set_x / set_mtrx_a / b / c / d (slice)
CallSetter ==
    \E setter \in {"set_init_state", "set_x", "set_mtrx_a", "set_mtrx_b",
                   "set_mtrx_c", "set_mtrx_d"},
       slice \in SeqsUpTo({1}, MaxLen) :
       /\ Returned(setter, <<slice>>, call_setter(setter, mdl["ssm"], slice))
       /\ mdl' = [mdl EXCEPT !["ssm"] = call_setter(setter, @, slice).self]

\* The caller drops the Result it holds
DropRet ==
    /\ ret.op # "none"
    /\ ret' = NoRet
    /\ UNCHANGED <<sys, sigval, mdl, pc, log, wirevars>>

NextNew ==
    \/ NewStepFunc \/ NewSpaceStateModel \/ NewSubSystem \/ NewTransFuncModel
    \/ CallSetter \/ DropRet

SpecNew == InitNew /\ [][NextNew]_vars

\* A sequence of signal definitions a bus cannot be built from
HasDuplicate(sigdef) ==
    \E i, j \in 1 .. Len(sigdef) : i # j /\ sigdef[i] = sigdef[j]

\* C20: construction with an invalid configuration returns an error and
\* never panics: zero state, input or output dimension, a bus length that
\* differs from the parameter count, duplicate signal names, slices of the
\* wrong length, transfer-function numerator or denominator lists of any
\* length, empty ones included; a failed setter leaves the model unchanged.
C20_ConstructionErrors ==
    ret.op # "none" =>
    LET args == ret.pre[1].args IN
    /\ ret.res # "panic"
    /\ ret.op = "StepFunc_new" =>
          ((HasDuplicate(args[1]) \/ Len(args[1]) # args[2]) => ret.res = "Err")
    /\ ret.op = "SpaceStateModel_new" =>
          ((HasDuplicate(args[1]) \/ HasDuplicate(args[2]) \/ args[1] = <<>>
               \/ args[2] = <<>> \/ args[3] = 0) => ret.res = "Err")
    /\ ret.op = "SubSystem_new" =>
          ((HasDuplicate(args[1]) \/ HasDuplicate(args[2])) => ret.res = "Err")
    /\ ret.op = "TransFuncModel_new" =>
          ((Len(args[4]) < 2 \/ Len(args[3]) > Len(args[4])
               \/ Len(args[1]) # 1 \/ Len(args[2]) # 1) => ret.res = "Err")
    /\ ret.op \in {"set_init_state", "set_x", "set_mtrx_a", "set_mtrx_b",
                   "set_mtrx_c", "set_mtrx_d"} =>
          /\ Len(args[1]) # 1 => ret.res = "Err"
          /\ ret.res = "Err" => mdl["ssm"] = ret.pre[1].self

-----------------------------------------------------------------------------
(* A run() over a model whose input was never connected: ma is registered  *)
(* with its reference slot ia unbound, sf feeds mb, and the recorders      *)
(* watch the three outputs.                                                *)

\* sf feeds mb; nothing is connected to ma
UnboundWiring ==
    << <<"sf", <<"st1">>, "mb", <<"ib">> >> >> \o RecorderWiring

InitUnbound ==
    /\ WireIdle
    /\ \E end_time \in 1 .. MaxEnd, delta_t \in 1 .. MaxDt :
          sys = SimSystem_new(0, end_time, delta_t)
    /\ sigval = [c \in SimCells |-> 0]
    /\ mdl = Wire(NewUnits(<<0, 1, 0>>), UnboundWiring)
    /\ pc = Idle
    /\ log = NoLog
    /\ ret = NoRet

SpecUnbound == InitUnbound /\ [][NextRun]_vars

\* Call p of the current tick is the nextstate of a model that has an
\* unbound reference slot on its input bus
ReadsUnbound(p) ==
    /\ log.calls[p].op = "nextstate"
    /\ log.calls[p].unit \in SimModelIds
    /\ has_unbound(unit_interface_in(mdl[log.calls[p].unit]))

\* The state part of C21, for the faulting call p of a tick
AbortedAt(p) ==
    /\ pc.phase = "panicked"
    /\ p = Len(log.calls)
    /\ mdl[log.calls[p].unit].x = mdl[log.calls[p].unit].init_x
    /\ \A q \in 1 .. p - 1 :
          /\ log.calls[q].unit = log.order[q]
          /\ log.life[log.order[q]].nstep = sys.sim_time.step
          /\ Outputs(mdl[log.order[q]], sigval) = log.calls[q].y
    /\ \A q \in p .. Len(log.order) :
          Outputs(mdl[log.order[q]], sigval)
             = Outputs(mdl[log.order[q]], log.tickstart)
    /\ \A q \in p + 1 .. Len(log.order) :
          log.life[log.order[q]].nstep = sys.sim_time.step - 1
    /\ \A r \in Recorders(sys) :
          /\ log.life[r].nstep = sys.sim_time.step - 1
          /\ Len(mdl[r].timedata) = sys.sim_time.step
    /\ \A u \in SimUnitIds : log.life[u].nfin = 0

C21_Aborted ==
    \A p \in 1 .. Len(log.calls) : ReadsUnbound(p) => AbortedAt(p)

\* The step part of C21: nothing follows the fault
C21_Halted == pc.phase = "panicked" => UNCHANGED simvars

\* C21: when the nextstate of a model reads an unbound reference slot in a
\* tick of run(), the run stops there without rollback: the outputs written
\* in that tick by the models registered before it keep their new values, no
\* later model and no recorder is stepped in that tick, no further tick
\* starts and finalize is called on nothing.
C21_NoRollback == [](C21_Aborted) /\ [][C21_Halted]_vars

C21_Witness ==
    /\ pc.phase = "panicked"
    /\ log.order = <<"sf", "ma", "mb">>
    /\ Len(log.calls) = 2
    /\ sigval["st1"] = 1
    /\ log.tickstart["st1"] = 0
    /\ log.life["mb"].nstep = 0
    /\ Cardinality(Recorders(sys)) = 2
    /\ \A r \in Recorders(sys) : Len(mdl[r].timedata) = 1

-----------------------------------------------------------------------------
(* The clock driven by run(): a system that holds the recorder scp2 and no *)
(* model, for clocks that start below 2^53 and at 2^53.                    *)

MaxTicks == 5   \* the while loop of run() is followed for at most MaxTicks ticks

\* The start times of the clock
ClockStarts == {0, 1, Two53, Two53 + 2}

\* SimSystem::new(start_time, end_time, delta_t) and regist_recorder("rec1", scp2)
InitClock ==
    /\ WireIdle
    /\ \E start_time \in ClockStarts, k \in 0 .. MaxEnd, delta_t \in 1 .. MaxDt :
          sys = regist_recorder(SimSystem_new(start_time, start_time + 2 * k, delta_t),
                                "rec1", "scp2")
    /\ sigval = [c \in SimCells |-> 0]
    /\ mdl = Wire(NewUnits(<<0, 1, 0>>), RecorderWiring)
    /\ pc = Idle
    /\ log = [NoLog EXCEPT !.moved = {"scp2"}]
    /\ ret = NoRet

\* The head of the while loop of run(), followed for MaxTicks ticks
ClockNextCapped ==
    /\ sys.sim_time.step < MaxTicks
    /\ ClockNext

NextClock ==
    \/ RunStart \/ InitializeRecorder \/ ClockNextCapped
    \/ NextstateRecorder \/ FinalizeRecorder \/ RunReturn

SpecClock == InitClock /\ [][NextClock]_vars

\* The number of steps of size delta_t that lead from start_time to
\* end_time or beyond
TickBound(self) ==
    IF self.end_time <= self.start_time THEN 0
    ELSE (self.end_time - self.start_time + self.delta_t - 1) \div self.delta_t

\* No more instants are yielded than steps of delta_t fit before end_time
C25_Bounded == sys.sim_time.step <= TickBound(sys.sim_time)

\* A second run() yields the instants of the first
C25_Restart ==
    (log.runs >= 2 /\ pc.phase = "done") =>
       \A r \in Recorders(sys) :
          /\ mdl[r].timedata = log.first.rec[1][r].timedata
          /\ Len(mdl[r].timedata) = sys.sim_time.step + 1

\* Every instant yielded moves the time forward
C25_Forward ==
    sys'.sim_time.step = sys.sim_time.step + 1
       => sys'.sim_time.time > sys.sim_time.time

\* C25: the clock yields a finite sequence and is restartable.  For every
\* start_time, end_time and delta_t > 0 every instant moves the time forward,
\* so that the iterator returns None after the finitely many instants that
\* fit before end_time and run() reaches finalize; after reset() it yields
\* the same sequence of instants again.
C25_FiniteRestartable ==
    [](C25_Bounded /\ C25_Restart) /\ [][C25_Forward]_vars

-----------------------------------------------------------------------------
(* Who writes a cell                                                       *)

\* The calls of a reference-bus or a reference slot, and the bulk writes of
\* a value bus
RefOps == {"connect_to", "disconnect", "disconnect_all", "val", "export_to_matrix"}
BulkOps == {"import_matrix", "zero_reset", "set_all"}

\* The cells held by the value bus id
CellsOf(id) == {bus[id].signals[i].sig : i \in 1 .. len(bus[id])}

\* The step is a call that has left its Result in last
IsCall == last.op = "none" /\ last'.op # "none"

C26_Step ==
    /\ (IsCall /\ last'.op \in RefOps) => cellval' = cellval
    /\ cellval' # cellval =>
          IF IsCall
          THEN /\ last'.op \in BulkOps
               /\ last'.dst \in ValueBusIds
               /\ \A c \in Cells :
                     cellval'[c] # cellval[c] => c \in CellsOf(last'.dst)
          ELSE /\ last'.op = last.op
               /\ \A c \in Cells :
                     cellval'[c] # cellval[c] =>
                        \E id \in ValueBusIds : c \in CellsOf(id)

\* C26: no call of a reference-bus or reference slot (connect_to, disconnect,
\* disconnect_all, reading a value, export_to_matrix) changes the value of a
\* cell; a value changes only through set_val, import_matrix, zero_reset or
\* set_all on a value bus that holds the cell.
C26_CellFrame == [][C26_Step]_vars

C26_Witness ==
    /\ last.op = "disconnect_all"
    /\ last.dst = "b"
    /\ \A i \in 1 .. len(last.pre["b"]) : last.pre["b"].signals[i].sig # None
    /\ has_unbound(bus["b"])
    /\ cellval["bus1"] = 1
    /\ cellval["bus2"] = 1

-----------------------------------------------------------------------------
(* The series of a recorder                                                *)

\* Recorder r has been initialized in this run and no call of the run has
\* panicked
Recording(r) ==
    /\ pc.phase # "panicked"
    /\ log.life[r].state \in {"Initialized", "Stepping", "Finalized"}

\* Every series of recorder r is as long as its time series, one sample
\* more than the nextstate calls since its initialize, the first time sample
\* being start_time
C27_Lengths ==
    \A r \in SimRecIds :
       Recording(r) =>
          /\ Len(mdl[r].timedata) = 1 + log.life[r].nstep
          /\ Len(mdl[r].storage) = mdl[r].signum
          /\ \A idx \in 1 .. mdl[r].signum :
                Len(mdl[r].storage[idx]) = Len(mdl[r].timedata)
          /\ mdl[r].timedata[1] = sys.sim_time.start_time

\* A call that returns changes the series of recorder r in two ways only:
\* initialize leaves one sample per series, nextstate appends the time of
\* the clock it was given and one sample per signal to what was there
C27_Samples ==
    \A r \in SimRecIds :
       (pc'.phase # "panicked" /\ mdl'[r] # mdl[r]) =>
          \/ /\ pc.phase = "init_recorders"
             /\ mdl'[r].timedata = <<sys.sim_time.start_time>>
             /\ \A idx \in 1 .. mdl[r].signum : Len(mdl'[r].storage[idx]) = 1
          \/ /\ pc.phase = "step_recorders"
             /\ mdl'[r].timedata = Append(mdl[r].timedata, sys.sim_time.time)
             /\ Len(mdl'[r].timedata) = 1 + log'.life[r].nstep
             /\ \A idx \in 1 .. mdl[r].signum :
                   /\ Len(mdl'[r].storage[idx]) = Len(mdl[r].storage[idx]) + 1
                   /\ SubSeq(mdl'[r].storage[idx], 1, Len(mdl[r].storage[idx]))
                         = mdl[r].storage[idx]

\* C27: after initialize and any number of nextstate calls every per-signal
\* series of a recorder is as long as its time series, 1 + the number of
\* nextstate calls since the last initialize; initialize discards the
\* samples of a previous run, sample 0 is start_time and sample k is the
\* clock time given to the k-th nextstate.
C27_RecorderSeries == [](C27_Lengths) /\ [][C27_Samples]_vars

\* A second run has ended whose recorder took two samples after the first
\* run had left it two samples or more
C27_Witness ==
    /\ pc.phase = "done"
    /\ log.runs = 2
    /\ \E r \in Recorders(sys) :
          /\ mdl[r].signum >= 1
          /\ log.life[r].nstep >= 1
          /\ Len(mdl[r].timedata) = 1 + log.life[r].nstep
          /\ Len(log.first.rec[1][r].timedata) >= 2

-----------------------------------------------------------------------------
(* The instant the units of a tick are given                               *)

\* run() is in the nextstate calls of a tick
TickCalls == pc.phase \in {"step_models", "step_recorders"}

\* The units of the k-th tick are given step = k >= 1 and
\* time = start_time + k * delta_t, which is not start_time
C28_Instant ==
    TickCalls =>
       /\ sys.sim_time.step >= 1
       /\ sys.sim_time.time
             = sys.sim_time.start_time + sys.sim_time.step * sys.sim_time.delta_t
       /\ sys.sim_time.time # sys.sim_time.start_time

\* The tick run() is in is the last one exactly when its time has reached
\* end_time, and no tick before it had
C28_LastTick ==
    (TickCalls \/ pc.phase \in {"fin_models", "fin_recorders", "done"}) =>
       (sys.sim_time.step >= 1 =>
           sys.sim_time.start_time
              + (sys.sim_time.step - 1) * sys.sim_time.delta_t < sys.sim_time.end_time)

\* Once the loop is left the time has reached end_time
C28_Ended ==
    pc.phase \in {"fin_models", "fin_recorders", "done"} =>
       sys.sim_time.time >= sys.sim_time.end_time

\* C28: in run() the clock is advanced before the units of a tick are
\* stepped: in the k-th tick (k >= 1) every model and recorder observes
\* step = k and time = start_time + k * delta_t, so that no nextstate
\* observes time = start_time, and the last tick is the first one whose
\* time is >= end_time.
C28_TickInstant == C28_Instant /\ C28_LastTick /\ C28_Ended

-----------------------------------------------------------------------------
(* Wiring the models of a subsystem: a subsystem with two inputs and two   *)
(* outputs, and as targets a state-space model p, a step source sf, which  *)
(* has no input bus, and a recorder scp, which has no output bus.          *)

Targets == {"p", "sf", "scp"}

\* The signal names of the buses of the scenario
SubInDef == <<"sin", "sin2">>
SubOutDef == <<"sout", "sout2">>
TargetDef == [p |-> <<"pi">>, sf |-> <<"st1">>, scp |-> <<"r11", "r12">>]
TargetOutDef == [p |-> <<"po">>, sf |-> <<"st1">>, scp |-> <<"r11", "r12">>]

\* The name lists given to a call: none, one or all of the names
NameLists(def) == SeqsUpTo(Range(def), 1) \cup {def}

InitConnect ==
    /\ WireIdle
    /\ sys = SimSystem_new(0, 1, 1)
    /\ sigval = [c \in SubCells |-> 0]
    /\ mdl = [sub |-> SubSystem_new(SubInDef, SubOutDef, 1).self,
              p |-> NewSsm("pi", "po", 0),
              sf |-> StepFunc_new(<<"st1">>, <<<<0, 1, 0>>>>).self,
              scp |-> SimRecorder_new(RefBus_try_from(<<"r11", "r12">>))]
    /\ pc = Idle
    /\ log = NoLog
    /\ ret = NoRet

\* The Result of a wiring call on target t goes to the caller, with the
\* units as they were before the call
Connected(op, t, srclist, dstlist, res) ==
    /\ ret.op = "none"
    /\ ret' = [NoRet EXCEPT !.op = op, !.name = t, !.res = res,
                            !.pre = <<[units |-> mdl, srclist |-> srclist,
                                       dstlist |-> dstlist]>>]
    /\ UNCHANGED <<sys, sigval, pc, log, wirevars>>

\* sub.connect_inbus(&mut t, srclist, dstlist)
ConnectInbus ==
    \E t \in Targets :
       \E srclist \in NameLists(SubInDef), dstlist \in NameLists(TargetDef[t]) :
          LET r == connect_inbus(mdl["sub"], mdl[t], srclist, dstlist) IN
          /\ Connected("connect_inbus", t, srclist, dstlist, r.res)
          /\ mdl' = [mdl EXCEPT ![t] = r.target]

\* sub.connect_outbus(&t, srclist, dstlist)
ConnectOutbus ==
    \E t \in Targets :
       \E srclist \in NameLists(TargetOutDef[t]), dstlist \in NameLists(SubOutDef) :
          LET r == connect_outbus(mdl["sub"], mdl[t], srclist, dstlist) IN
          /\ Connected("connect_outbus", t, srclist, dstlist, r.res)
          /\ mdl' = [mdl EXCEPT !["sub"] = r.self]

NextConnect == ConnectInbus \/ ConnectOutbus \/ DropRet

SpecConnect == InitConnect /\ [][NextConnect]_vars

\* C29: connect_outbus with a target that has no output interface returns
\* success and binds nothing, the output buffer being unchanged; connect_inbus
\* with a target that has no input interface returns an error; in both cases
\* no binding is changed.
C29_NoInterface ==
    /\ (ret.op = "connect_outbus" /\ ret.name = "scp") =>
          /\ ret.res = "Ok"
          /\ mdl["sub"].outbus_buf = ret.pre[1].units["sub"].outbus_buf
          /\ mdl = ret.pre[1].units
    /\ (ret.op = "connect_inbus" /\ ret.name = "sf") =>
          /\ ret.res = "Err"
          /\ mdl = ret.pre[1].units

\* connect_outbus was given the recorder and names of both sides after the
\* output buffer had been bound to an output of p and p to the input buffer
C29_Witness ==
    /\ ret.op = "connect_outbus"
    /\ ret.name = "scp"
    /\ ret.pre[1].srclist = <<"r11">>
    /\ ret.pre[1].dstlist = <<"sout2">>
    /\ mdl["sub"].outbus_buf.signals[1].sig = "po"
    /\ mdl["sub"].outbus_buf.signals[2].sig = None
    /\ mdl["p"].input_bus.signals[1].sig = "sin"

-----------------------------------------------------------------------------
(* The first sample of a recorder                                          *)

\* A recorder has been initialized only when every registered model has
C30_Order ==
    \A r \in Recorders(sys), m \in Range(log.order) :
       log.life[r].ninit >= 1 => log.life[m].ninit = 1

\* The value of cell c once the models of this run are initialized: what the
\* initialize of its owner left on its output bus, or what the cell held
\* when run() was entered if its owner is not registered
Established(c, v) ==
    IF OwnerOf(c) \in Range(log.order)
    THEN \E i \in 1 .. Len(log.calls) :
            /\ log.calls[i].op = "initialize"
            /\ log.calls[i].unit = OwnerOf(c)
            /\ log.calls[i].y[PlaceOf(c)] = v
    ELSE v = log.tickstart[c]

\* The initialize of a recorder that returns comes after the initialize of
\* every registered model and takes as sample 0 of every signal the value
\* established for its cell
C30_Sample ==
    \A r \in SimRecIds :
       (log'.life[r].ninit > log.life[r].ninit /\ pc'.phase # "panicked") =>
          /\ \A m \in Range(log.order) : log.life[m].ninit = 1
          /\ \A i \in 1 .. Len(log.calls) :
                log.calls[i].unit \in SimModelIds =>
                   \A j \in 1 .. i : log.calls[j].unit \in SimModelIds
          /\ \A idx \in 1 .. mdl[r].signum :
                Established(mdl[r].input_bus.signals[idx].sig,
                            mdl'[r].storage[idx][1])

\* C30: in run() every recorder is initialized after every model has been
\* initialized, so that sample 0 of each connected signal is the output
\* value the initialize of the producing model established (the value the
\* cell already held when that initialize does not write it), never a value
\* from before the initialization of the models.
C30_RecorderAfterModels == [](C30_Order) /\ [][C30_Sample]_vars

\* Recorder scp1 has taken as sample 0 the value 1 that the initialize of the
\* source wrote into the cell st1, which held 0 when run() was entered
C30_Witness ==
    /\ pc.phase = "loop"
    /\ sys.sim_time.step = 0
    /\ "scp1" \in Recorders(sys)
    /\ log.life["scp1"].ninit = 1
    /\ Len(log.order) = 3
    /\ log.tickstart["st1"] = 0
    /\ mdl["scp1"].storage[1] = <<1>>
    /\ mdl["sf"].settings[1][1] = 1

====
